---- MODULE Spec2Model ----
(***************************************************************************)
(* Model of the client/server image repository protocol.                   *)
(*                                                                         *)
(* Seven parts are modelled, each with its own specification:              *)
(*                                                                         *)
(*   SpecBatch  the batch streamer: the server side (browse_by_tag,        *)
(*              search_by_image, send_images_in_batches, send_batch_of_    *)
(*              images, send_image_to_client) against the client side      *)
(*              (do_browse_by_tag / do_search_by_image, receive_batches_   *)
(*              of_images, receive_image).  One step is one typed value    *)
(*              handed to / taken from the Communicator.                   *)
(*                                                                         *)
(*   SpecFrame  the framed transport: encrypt_and_send / send_data on one  *)
(*              endpoint against receive_and_decrypt / receive_data on     *)
(*              the other, over a byte stream that may alter bytes and     *)
(*              may be closed by the peer.  One step is one socket call.   *)
(*              SpecFrameCode and SpecFrameLength are the same transport   *)
(*              over a channel that also alters the final code, or the     *)
(*              length field.                                              *)
(*                                                                         *)
(*   SpecSession  the server's main loop and ServerCommander against the   *)
(*              client's do_* commands, with the batch streamer running    *)
(*              inside search_by_image and browse_by_tag.                  *)
(*                                                                         *)
(*   SpecCodec  the typed value codec: one send_* call of one endpoint     *)
(*              paired with the receive_* call of the other, on values     *)
(*              drawn from bounded sets.                                   *)
(*                                                                         *)
(*   SpecCipher the Cipher of two processes: the key file secret.key that  *)
(*              each Cipher() reads or creates, and encrypt / decrypt      *)
(*              under the keys obtained.                                   *)
(*                                                                         *)
(*   SpecPrompt the client's prompt_for_comma_separated_integers on the    *)
(*              lines a user may enter.                                    *)
(*                                                                         *)
(*   SpecCart   the ShoppingCart of util/shopping.py under any sequence    *)
(*              of add_to_cart, remove_from_cart and update_in_cart.       *)
(***************************************************************************)
EXTENDS Integers, Sequences, FiniteSets, TLC

VARIABLES
  \* ---- batch streamer layer ----
  entry,        \* server operation that runs: a handler or the bare procedure
  image_count,  \* image_count argument (number of records the source holds)
  batch_size,   \* batch_size argument of send_images_in_batches
  srv,          \* server position
  cli,          \* client position
  images_sent,  \* send_images_in_batches: images_sent (the running offset)
  small,        \* TRUE in the "not quite a full batch" branch
  images,       \* the page retrieve_func returned (sequence of record ids)
  idx,          \* number of records of the page already sent
  fld,          \* server: next field of the current record (1..5)
  s2c,          \* values sent by the server and not yet taken by the client
  c2s,          \* values sent by the client and not yet taken by the server
  signal,       \* client: receive_batches_of_images' variable signal
  image_batch,  \* client: the batch being filled
  rec,          \* client: fields of the record being received
  batches,      \* client: batches handed to display/batch_func, in order
  sent,         \* history: every value the server passed to the Communicator
  retrieved,    \* history: number of retrieve_func calls
  answers,      \* history: the answers given to "Display more images?"
  \* ---- framed transport layer ----
  spc,          \* sender position in encrypt_and_send / send_data
  message,      \* encrypt_and_send: message
  frame,        \* (ciphertext_length, ciphertext, tag, nonce) being sent
  sfield,       \* index of the field send_data is called with (1..4)
  nonce_ctr,    \* number of nonces the sender's cipher has drawn
  rpc,          \* receiver position in receive_and_decrypt / receive_data
  rfield,       \* index of the field receive_data is called for (1..4)
  length,       \* receive_data: length
  data,         \* receive_data: len(data), bytes received so far
  rtok,         \* the field the bytes in data belong to
  rframe,       \* fields received so far in this attempt
  fwd,          \* bytes in flight sender -> receiver, as field segments
  back,         \* codes in flight receiver -> sender
  sclosed,      \* the sender's end of the socket is closed (process gone)
  rclosed,      \* the receiver's end of the socket is closed
  tx,           \* history: fields written during the current encrypt_and_send
  codes,        \* history: frame codes sent by the current receive_and_decrypt
  faults,       \* history: attempts of the current call altered in transit
  attempt_bad,  \* history: the current attempt was altered in transit
  submitted,    \* history: messages passed to encrypt_and_send
  delivered,    \* history: messages returned by receive_and_decrypt
  accepted,     \* history: number of encrypt_and_send calls that returned
  s_empty_read, \* history: a recv of the sender returned zero bytes
  r_empty_read, \* history: a recv of the receiver returned zero bytes
  \* ---- session layer ----
  main,         \* server main(): position
  command,      \* server: the command dispatched, "none" between commands
  expect,       \* server handler: the receive calls still to make
  username,     \* server: self.username is not None
  propagated,   \* server: the exception that left main(), or "none"
  server_sock,  \* server: state of the accepted connection's socket
  cpc,          \* client: position in cmdloop / the do_* command
  ccmd,         \* client: the command being run
  outbox,       \* client: the values the command has still to send
  user,         \* client: self.user is not None
  client_sock,  \* client: state of its socket
  key_file,     \* content of secret.key: "absent" or a key
  key_accesses, \* history: reads and writes of secret.key by the server
  keys,         \* history: self.key of the Cipher of each session
  sessions,     \* history: connections accepted by the server
  issued,       \* history: commands issued by the current client
  executed,     \* history: handlers dispatched in the current session
  reads,        \* history: commands read by the server in this session
  send_skipped, \* history: a send of the current command sent nothing
  logins,       \* history: what db.verify_user found at each login of the
                \* session
  db_session,   \* ServerCommander.db: the session with the database
  \* ---- typed value codec ----
  sop,          \* the send_* operation called
  arg,          \* its argument
  plan,         \* sender: payloads still to pass to encrypt_and_send
  spos,         \* sender: position, "returned", or the exception raised
  frames,       \* history: payloads the sender passed to encrypt_and_send
  wire,         \* the frame in flight (its plaintext payload)
  rop,          \* the receive_* operation called
  rpos,         \* receiver: position, "returned", or the exception raised
  result,       \* the value the receive_* call returned
  \* ---- cipher keys ----
  secret_key,   \* the file secret.key: whether it exists, and its bytes
  cipher_pos,   \* per process: position in Cipher.__init__
  cipher_key,   \* per process: self.key
  created,      \* history, per process: create_secret_key ran
  afterwards,   \* history, per process: its Cipher() call began after
                \* another process's Cipher() had returned
  drawn,        \* number of nonces the AES library has drawn
  boxes,        \* history: the encrypt calls made, with their outcomes
  opened,       \* history: the decrypt calls made, with their outcomes
  \* ---- client prompt and shopping cart ----
  valid_values, \* prompt_for_comma_separated_integers: valid_values
  prompt_pos,   \* position in the prompt's loop, or "returned"
  selection_raw,\* the line the user entered last
  selection,    \* the list the prompt returned
  prompts,      \* history: number of lines the prompt has read
  cart,         \* ShoppingCart.cart: product id -> Product, or NotInCart
  calls,        \* history: number of cart calls made
  last_call     \* history: the cart call made last

batchVars == << entry, image_count, batch_size, srv, cli, images_sent, small,
                images, idx, fld, s2c, c2s, signal, image_batch, rec, batches,
                sent, retrieved, answers >>

frameVars == << spc, message, frame, sfield, nonce_ctr, rpc, rfield, length,
                data, rtok, rframe, fwd, back, sclosed, rclosed, tx, codes,
                faults, attempt_bad, submitted, delivered, accepted,
                s_empty_read, r_empty_read >>

sessVars == << main, command, expect, username, propagated, server_sock,
               cpc, ccmd, outbox, user, client_sock, key_file, key_accesses,
               keys, sessions, issued, executed, reads, send_skipped,
               logins, db_session >>

codecVars == << sop, arg, plan, spos, frames, wire, rop, rpos, result >>

cipherVars == << secret_key, cipher_pos, cipher_key, created, afterwards,
                 drawn, boxes, opened >>

promptVars == << valid_values, prompt_pos, selection_raw, selection, prompts >>

cartVars == << cart, calls, last_call >>

shopVars == << promptVars, cartVars >>

vars == << batchVars, frameVars, sessVars, codecVars, cipherVars, shopVars >>

-----------------------------------------------------------------------------
(* Bounds of the model *)

MaxN == 12          \* largest record count explored
MaxB == 7           \* largest batch_size argument explored
MaxLen == 2         \* longest message (bytes) passed to encrypt_and_send
MaxFrames == 2      \* encrypt_and_send / receive_and_decrypt calls per run
MaxFaults == 2      \* attempts per call the channel may alter

(* Program constants *)

DefaultBatchSize == 5    \* send_images_in_batches(..., batch_size=5)
PageLimit == 5           \* retrieve_images_with_tags / get_image_attributes: batch_size=5
LENGTH_SIZE == 8         \* Cipher.LENGTH_SIZE
TAG_SIZE == 16           \* Cipher.TAG_SIZE
NONCE_SIZE == 16         \* Cipher.NONCE_SIZE

-----------------------------------------------------------------------------
(* Typed values on the wire.  An enum travels as the string of its value. *)

Signal == { "SUCCESS", "FAILURE", "EMPTY", "POPULATED", "NO_RESULTS",
            "SEARCH_RESULTS", "START_TRANSFER", "CONTINUE_TRANSFER",
            "END_TRANSFER", "START_BATCH", "CONTINUE_BATCH", "END_BATCH" }

Item(kind, name, id) == [kind |-> kind, name |-> name, id |-> id]

\* send_enum(e) = send_string(e.value)
send_enum(e) == Item("string", e, 0)

\* Garbage stands for the value a decoder computes from bytes of another type.
Garbage == Item("garbage", "garbage", 0)

\* receive_enum(Signal): Signal(receive_string()); ValueError on a string that
\* is no member value.
receive_enum(item) ==
  IF item.kind = "string" /\ item.id = 0 /\ item.name \in Signal
  THEN item.name ELSE "ValueError"

\* send_image_to_client: the five values of a record, in the order sent.
\* The database row is (id, image_path, quantity, cost).
RecordField(r, k) ==
  CASE k = 1 -> Item("int", "id", r)            \* send_int(image.id)
    [] k = 2 -> Item("image", "image", r)       \* send_image(image.path)
    [] k = 3 -> Item("string", "filename", r)   \* send_string(image.path.name)
    [] k = 4 -> Item("float", "cost", r)        \* send_float(image.cost)
    [] k = 5 -> Item("int", "quantity", r)      \* send_int(image.quantity)

\* A sink that reads the quantity before the cost.
FieldKind_Swapped(k) ==
  CASE k = 1 -> "int" [] k = 2 -> "image" [] k = 3 -> "string"
    [] k = 4 -> "int" [] k = 5 -> "float"

\* receive_image: the receive call used for the k-th value of a record.
FieldKind(k) ==
  CASE k = 1 -> "int" [] k = 2 -> "image" [] k = 3 -> "string"
    [] k = 4 -> "float" [] k = 5 -> "int"

\* What receive_int / receive_image / receive_string / receive_float return.
Decode(kind, item) == IF item.kind = kind THEN item ELSE Garbage

Min(a, b) == IF a < b THEN a ELSE b

-----------------------------------------------------------------------------
(* The framed transport at rest: no call in progress, nothing in flight. *)

NoField == [kind |-> "none", m |-> 0, nonce |-> 0, x |-> 0]

\* The product ids a cart is offered.
ProductIds == { 1, 2 }

\* The entry of a product id that self.cart does not hold.
NotInCart == [held |-> FALSE, quantity |-> 0, stock |-> 0]

\* No cart call has been made.
NoCall == [op |-> "none", id |-> 0, quantity |-> 0, stock |-> 0]

\* No prompt is shown and no cart is used.
ShopIdle ==
  /\ valid_values = {} /\ prompt_pos = "none" /\ selection_raw = << >>
  /\ selection = << >> /\ prompts = 0
  /\ cart = [i \in ProductIds |-> NotInCart] /\ calls = 0
  /\ last_call = NoCall

\* The processes that construct a Cipher.
Procs == { "server", "client" }

\* No Cipher is constructed and there is no key file.
CipherIdle ==
  /\ secret_key = [exists |-> FALSE, bytes |-> << >>]
  /\ cipher_pos = [p \in Procs |-> "none"]
  /\ cipher_key = [p \in Procs |-> << >>]
  /\ created = [p \in Procs |-> FALSE]
  /\ afterwards = [p \in Procs |-> FALSE]
  /\ drawn = 0 /\ boxes = << >> /\ opened = << >>

\* No codec call is made.
CodecIdle ==
  /\ sop = "none" /\ arg = << >> /\ plan = << >> /\ spos = "none"
  /\ frames = << >> /\ wire = << >>
  /\ rop = "none" /\ rpos = "none" /\ result = << >>

\* No server process and no client: the layers below are exercised alone.
SessionIdle ==
  /\ main = "none" /\ command = "none" /\ expect = << >>
  /\ username = FALSE /\ propagated = "none" /\ server_sock = "none"
  /\ cpc = "none" /\ ccmd = "none" /\ outbox = << >> /\ user = FALSE
  /\ client_sock = "none"
  /\ key_file = 0 /\ key_accesses = 0 /\ keys = << >>
  /\ sessions = 0 /\ issued = 0 /\ executed = << >> /\ reads = 0
  /\ send_skipped = FALSE /\ logins = << >> /\ db_session = "none"

TransportIdle ==
  /\ spc = "idle" /\ message = 0 /\ frame = << >> /\ sfield = 1
  /\ nonce_ctr = 0
  /\ rpc = "idle" /\ rfield = 1 /\ length = 0 /\ data = 0 /\ rtok = NoField
  /\ rframe = << >>
  /\ fwd = << >> /\ back = << >> /\ sclosed = FALSE /\ rclosed = FALSE
  /\ tx = << >> /\ codes = << >> /\ faults = 0 /\ attempt_bad = FALSE
  /\ submitted = << >> /\ delivered = << >> /\ accepted = 0
  /\ s_empty_read = FALSE /\ r_empty_read = FALSE

-----------------------------------------------------------------------------
(* The data source *)

\* retrieve_images_with_tags(tags, batch_size=5, offset) and
\* get_image_attributes(ids, batch_size=5, offset): records offset+1 ..
\* offset+5 of the image_count matching records, in order.  The callers pass
\* no batch_size, so the limit is always the default.
retrieve_func(offset) ==
  [i \in 1 .. (Min(image_count, offset + PageLimit) - Min(image_count, offset))
     |-> offset + i]

\* "if image_count < batch_size": images that do not quite amount to a batch
NotQuiteFullBatch == image_count < batch_size

\* A source that also prompts when the batch just sent was the last one.
MoreImagesLeft_OrEqual == image_count - images_sent >= batch_size

\* "if image_count - images_sent > batch_size": more images left beyond this batch
MoreImagesLeft == image_count - images_sent > batch_size

-----------------------------------------------------------------------------
(* Server side *)

\* encrypt_and_send returns only once the peer has taken the value
\* (it loops until the peer's ACKNOWLEDGE): the server is past its last send.
ServerReady == s2c = << >>
ClientReady == c2s = << >>

ServerSend(item) ==
  /\ s2c' = Append(s2c, item)
  /\ sent' = Append(sent, item)

\* Everything of the server except its position and the channel.
srvData == << images_sent, small, images, idx, fld, retrieved >>
cliData == << signal, image_batch, rec, batches, answers >>
\* The arguments of the run, and the transport layer below, which the
\* streamer uses through ServerReady / ClientReady only.
args == << entry, image_count, batch_size, frameVars, sessVars, codecVars,
          cipherVars, shopVars >>

\* ServerCommander.browse_by_tag, after the tags were received and counted.
browse_by_tag ==
  /\ srv = "handler" /\ entry = "browse_by_tag" /\ ServerReady
  /\ IF image_count = 0
     THEN /\ ServerSend(send_enum("NO_RESULTS"))
          /\ srv' = "done"                                \* return
     ELSE /\ srv' = "send_images_in_batches"
          /\ UNCHANGED << s2c, sent >>
  /\ UNCHANGED << args, cli, srvData, c2s, cliData >>

\* ServerCommander.search_by_image, after the neighbours were computed.
\* There is no return after NO_RESULTS: send_images_in_batches is called
\* with len(neighbour_ids) in both cases.
search_by_image ==
  /\ srv = "handler" /\ entry = "search_by_image" /\ ServerReady
  /\ IF image_count = 0
     THEN ServerSend(send_enum("NO_RESULTS"))
     ELSE UNCHANGED << s2c, sent >>
  /\ srv' = "send_images_in_batches"
  /\ UNCHANGED << args, cli, srvData, c2s, cliData >>

\* send_images_in_batches: send_enum(Signal.SEARCH_RESULTS)
send_search_results ==
  /\ srv = "send_images_in_batches" /\ ServerReady
  /\ ServerSend(send_enum("SEARCH_RESULTS"))
  /\ srv' = "start_transfer"
  /\ UNCHANGED << args, cli, srvData, c2s, cliData >>

\* send_images_in_batches: the branch on image_count < batch_size and
\* send_enum(Signal.START_TRANSFER) (sent first in either branch).
send_start_transfer ==
  /\ srv = "start_transfer" /\ ServerReady
  /\ ServerSend(send_enum("START_TRANSFER"))
  /\ small' = NotQuiteFullBatch
  /\ images_sent' = 0
  /\ srv' = "retrieve"
  /\ UNCHANGED << args, cli, images, idx, fld, retrieved, c2s, cliData >>

\* The while test, retrieve_func(...) and send_batch_of_images' first
\* statement, send_enum(Signal.START_BATCH).
send_batch_of_images ==
  /\ srv = "retrieve" /\ ServerReady
  /\ IF ~small /\ ~(image_count - images_sent > 0)
     THEN /\ srv' = "done"                                \* the while loop ends
          /\ UNCHANGED << images, idx, retrieved, s2c, sent >>
     ELSE /\ images' = retrieve_func(IF small THEN 0 ELSE images_sent)
          /\ retrieved' = retrieved + 1
          /\ idx' = 0
          /\ ServerSend(send_enum("START_BATCH"))
          /\ srv' = "in_batch"
  /\ UNCHANGED << args, cli, images_sent, small, fld, c2s, cliData >>

\* send_batch_of_images: for image in images: send_enum(Signal.CONTINUE_BATCH)
send_continue_batch ==
  /\ srv = "in_batch" /\ ServerReady
  /\ idx < Len(images)
  /\ ServerSend(send_enum("CONTINUE_BATCH"))
  /\ fld' = 1
  /\ srv' = "record"
  /\ UNCHANGED << args, cli, images_sent, small, images, idx, retrieved,
                  c2s, cliData >>

\* send_image_to_client: one of the five sends of the current record.
send_image_to_client ==
  /\ srv = "record" /\ ServerReady
  /\ ServerSend(RecordField(images[idx + 1], fld))
  /\ IF fld < 5
     THEN fld' = fld + 1 /\ UNCHANGED << srv, idx >>
     ELSE fld' = 1 /\ idx' = idx + 1 /\ srv' = "in_batch"
  /\ UNCHANGED << args, cli, images_sent, small, images, retrieved,
                  c2s, cliData >>

\* send_batch_of_images: send_enum(Signal.END_BATCH) after the last record.
send_end_batch ==
  /\ srv = "in_batch" /\ ServerReady
  /\ idx = Len(images)
  /\ ServerSend(send_enum("END_BATCH"))
  /\ srv' = "after_batch"
  /\ UNCHANGED << args, cli, srvData, c2s, cliData >>

\* send_images_in_batches after a batch: END_TRANSFER in the small branch;
\* in the loop CONTINUE_TRANSFER when more images are left, else END_TRANSFER.
send_transfer_continuation ==
  /\ srv = "after_batch" /\ ServerReady
  /\ IF ~small /\ MoreImagesLeft
     THEN /\ ServerSend(send_enum("CONTINUE_TRANSFER"))
          /\ srv' = "await_reply"
     ELSE /\ ServerSend(send_enum("END_TRANSFER"))
          /\ srv' = "done"                                \* return / break
  /\ UNCHANGED << args, cli, srvData, c2s, cliData >>

\* A source that ignores the sink's END_TRANSFER.
SinkEnded_Ignored(reply) == FALSE

\* "if self.communicator.receive_enum(Signal) == Signal.END_TRANSFER"
SinkEnded(reply) == reply = "END_TRANSFER"

\* send_images_in_batches: "if receive_enum(Signal) == Signal.END_TRANSFER:
\* break", otherwise images_sent += batch_size and the loop goes on.
receive_sink_reply ==
  /\ srv = "await_reply" /\ ServerReady
  /\ c2s # << >>
  /\ c2s' = Tail(c2s)
  /\ LET reply == receive_enum(Head(c2s)) IN
       IF reply = "ValueError"
       THEN srv' = "error" /\ UNCHANGED images_sent
       ELSE IF SinkEnded(reply)
       THEN srv' = "done" /\ UNCHANGED images_sent        \* break
       ELSE srv' = "retrieve" /\ images_sent' = images_sent + batch_size
  /\ UNCHANGED << args, cli, small, images, idx, fld, retrieved, s2c, sent,
                  cliData >>

-----------------------------------------------------------------------------
(* Client side *)

ClientTakes == ClientReady /\ s2c # << >>
Taken == /\ s2c' = Tail(s2c)
         /\ UNCHANGED << args, srv, srvData, sent >>

\* The user's answers to "Display more images? (y/n)".
Answers == { "y", "n" }

\* receive_batches_of_images: the answer that asks for another batch.
ShowNext(answer) == answer = "y"

\* do_browse_by_tag / do_search_by_image: signal = receive_enum(Signal);
\* return on NO_RESULTS, otherwise receive_batches_of_images().
receive_availability ==
  /\ cli = "availability" /\ ClientTakes /\ Taken
  /\ LET s == receive_enum(Head(s2c)) IN
       cli' = IF s = "ValueError" THEN "error"
              ELSE IF s = "NO_RESULTS" THEN "done"
              ELSE "receive_batches_of_images"
  /\ UNCHANGED << c2s, cliData >>

\* A loop that END_TRANSFER does not end.
LoopTest_Unending(s) == "start_batch"

\* "while signal != Signal.END_TRANSFER", entered with the value of signal.
LoopTest(s) == IF s = "END_TRANSFER" THEN "done" ELSE "start_batch"

\* receive_batches_of_images: the first signal = receive_enum(Signal).
receive_batches_of_images ==
  /\ cli = "receive_batches_of_images" /\ ClientTakes /\ Taken
  /\ LET s == receive_enum(Head(s2c)) IN
       /\ signal' = s
       /\ cli' = IF s = "ValueError" THEN "error" ELSE LoopTest(s)
  /\ UNCHANGED << c2s, image_batch, rec, batches, answers >>

\* image_batch = list(); if receive_enum(Signal) == Signal.START_BATCH
receive_start_batch ==
  /\ cli = "start_batch" /\ ClientTakes /\ Taken
  /\ image_batch' = << >>
  /\ LET s == receive_enum(Head(s2c)) IN
       cli' = IF s = "ValueError" THEN "error"
              ELSE IF s = "START_BATCH" THEN "in_batch"
              ELSE "continuation"
  /\ UNCHANGED << c2s, signal, rec, batches, answers >>

\* "while receive_enum(Signal) != Signal.END_BATCH: receive_image(...)";
\* on END_BATCH the batch goes to display_batch_of_images and batch_func.
receive_batch_signal ==
  /\ cli = "in_batch" /\ ClientTakes /\ Taken
  /\ LET s == receive_enum(Head(s2c)) IN
       IF s = "ValueError"
       THEN cli' = "error" /\ UNCHANGED << rec, batches >>
       ELSE IF s = "END_BATCH"
       THEN /\ batches' = Append(batches, image_batch)
            /\ cli' = "continuation"
            /\ UNCHANGED rec
       ELSE /\ rec' = << >>
            /\ cli' = "record"
            /\ UNCHANGED batches
  /\ UNCHANGED << c2s, signal, image_batch, answers >>

\* receive_image: receive_int, receive_image, receive_string, receive_float,
\* receive_int; the tuple is appended after the fifth.
receive_image ==
  /\ cli = "record" /\ ClientTakes /\ Taken
  /\ LET v == Decode(FieldKind(Len(rec) + 1), Head(s2c)) IN
       IF Len(rec) < 4
       THEN /\ rec' = Append(rec, v)
            /\ UNCHANGED << cli, image_batch >>
       ELSE /\ image_batch' = Append(image_batch, Append(rec, v))
            /\ rec' = << >>
            /\ cli' = "in_batch"
  /\ UNCHANGED << c2s, signal, batches, answers >>

\* signal = receive_enum(Signal) after the batch.
receive_continuation ==
  /\ cli = "continuation" /\ ClientTakes /\ Taken
  /\ LET s == receive_enum(Head(s2c)) IN
       /\ signal' = s
       /\ cli' = IF s = "ValueError" THEN "error"
                 ELSE IF s = "CONTINUE_TRANSFER" THEN "prompt"
                 ELSE LoopTest(s)
  /\ UNCHANGED << c2s, image_batch, rec, batches, answers >>

\* show_next = prompt_for_binary_choice(...): send CONTINUE_TRANSFER on 'y',
\* else send END_TRANSFER and break.
prompt_for_binary_choice ==
  /\ cli = "prompt" /\ ClientReady
  /\ \E answer \in Answers :
       /\ answers' = Append(answers, answer)
       /\ IF ShowNext(answer)
          THEN /\ c2s' = Append(c2s, send_enum("CONTINUE_TRANSFER"))
               /\ cli' = LoopTest(signal)
          ELSE /\ c2s' = Append(c2s, send_enum("END_TRANSFER"))
               /\ cli' = "done"                           \* break
  /\ UNCHANGED << args, srv, srvData, s2c, sent, signal, image_batch, rec,
                  batches >>

-----------------------------------------------------------------------------
(* Specification of the batch streamer *)

Handlers == { "browse_by_tag", "search_by_image" }

InitBatch ==
  /\ entry \in Handlers \cup { "send_images_in_batches" }
  /\ image_count \in 0 .. MaxN
  /\ batch_size \in 1 .. MaxB
  \* the handlers call send_images_in_batches with the default batch_size;
  \* they are the only callers with an empty result
  /\ entry \in Handlers => batch_size = DefaultBatchSize
  /\ entry = "send_images_in_batches" => image_count >= 1
  /\ srv = IF entry \in Handlers THEN "handler" ELSE "send_images_in_batches"
  /\ cli = "availability"
  /\ images_sent = 0 /\ small = FALSE /\ images = << >> /\ idx = 0 /\ fld = 1
  /\ s2c = << >> /\ c2s = << >>
  /\ signal = "none" /\ image_batch = << >> /\ rec = << >> /\ batches = << >>
  /\ sent = << >> /\ retrieved = 0 /\ answers = << >>
  /\ TransportIdle /\ SessionIdle /\ CodecIdle /\ CipherIdle /\ ShopIdle

NextBatch ==
  \/ browse_by_tag
  \/ search_by_image
  \/ send_search_results
  \/ send_start_transfer
  \/ send_batch_of_images
  \/ send_continue_batch
  \/ send_image_to_client
  \/ send_end_batch
  \/ send_transfer_continuation
  \/ receive_sink_reply
  \/ receive_availability
  \/ receive_batches_of_images
  \/ receive_start_batch
  \/ receive_batch_signal
  \/ receive_image
  \/ receive_continuation
  \/ prompt_for_binary_choice

SpecBatch == InitBatch /\ [][NextBatch]_vars

\* Both processes run and the user answers every prompt.
FairSpecBatch == SpecBatch /\ WF_vars(NextBatch)

-----------------------------------------------------------------------------
(* Properties of the batch streamer *)

Range(q) == { q[i] : i \in 1 .. Len(q) }

RECURSIVE Flatten(_)
Flatten(qq) == IF qq = << >> THEN << >> ELSE Head(qq) \o Flatten(Tail(qq))

\* ceil(n / b)
CeilDiv(n, b) == (n + b - 1) \div b

\* The complete record with id r, as receive_image builds it.
Record(r) == [k \in 1 .. 5 |-> RecordField(r, k)]

\* The procedure has returned: it is past its last statement and its last
\* send was taken by the peer.
ServerReturned == srv = "done" /\ ServerReady
ClientReturned == cli = "done" /\ ClientReady
BothReturned == ServerReturned /\ ClientReturned

AlwaysContinue == \A i \in 1 .. Len(answers) : ShowNext(answers[i])

SignalsSent == SelectSeq(sent, LAMBDA it : it.id = 0)
IdsSent == { it.id : it \in { x \in Range(sent) : x.name = "id" } }
LastSent == sent[Len(sent)]

\* C1: for every N >= 1 and every batch_size B >= 1, when the sink answers
\* CONTINUE_TRANSFER at every prompt, the sink has received, once both
\* procedures returned, exactly the N records (each once, in order) in
\* exactly ceil(N/B) batches.
C1_BatchCompleteness ==
  (image_count >= 1 /\ BothReturned /\ AlwaysContinue)
    => /\ Flatten(batches) = [r \in 1 .. image_count |-> Record(r)]
       /\ Len(batches) = CeilDiv(image_count, batch_size)

\* C2: with a record count of zero, browse_by_tag and search_by_image send
\* exactly one signal, NO_RESULTS, and nothing after it; the client receives
\* no record.
C2_NoResultsOnly ==
  (entry \in Handlers /\ image_count = 0)
    => /\ Len(sent) <= 1
       /\ \A i \in 1 .. Len(sent) : sent[i] = send_enum("NO_RESULTS")
       /\ srv = "done" => Len(sent) = 1
       /\ batches = << >> /\ image_batch = << >> /\ rec = << >>

\* Who speaks next.  A side sends when a value of its own is still untaken or
\* its next statement is a send; it receives when its next statement is a
\* receive call; it is off when it has returned or raised.
ServerRole ==
  IF ~ServerReady THEN "send"
  ELSE IF srv \in { "done", "error" } THEN "off"
  ELSE IF srv = "await_reply" THEN "receive"
  ELSE "send"

ClientRole ==
  IF ~ClientReady \/ cli = "prompt" THEN "send"
  ELSE IF cli \in { "done", "error" } THEN "off"
  ELSE "receive"

\* The value in flight is one the receiving call accepts.
SameItem ==
  /\ (s2c # << >> /\ cli = "record")
        => Head(s2c).kind = FieldKind(Len(rec) + 1)
  /\ (s2c # << >> /\ ClientRole = "receive" /\ cli # "record")
        => receive_enum(Head(s2c)) # "ValueError"
  /\ (c2s # << >> /\ ServerRole = "receive")
        => receive_enum(Head(c2s)) # "ValueError"

TurnsAgree ==
  /\ { ServerRole, ClientRole } \in { { "send", "receive" }, { "off" } }
  /\ Len(s2c) <= 1 /\ Len(c2s) <= 1
  /\ SameItem

C4_ContinueIffMoreRemain ==
  \* the state right after the source has sent its signal following a batch
  /\ (image_count >= 1 /\ s2c # << >> /\ srv \in { "await_reply", "done" })
       => /\ LastSent \in { send_enum("CONTINUE_TRANSFER"),
                            send_enum("END_TRANSFER") }
          /\ (LastSent = send_enum("CONTINUE_TRANSFER"))
               <=> (IdsSent # 1 .. image_count)
          /\ (LastSent = send_enum("CONTINUE_TRANSFER")) <=> srv = "await_reply"
          /\ (LastSent = send_enum("END_TRANSFER")) <=> srv = "done"
  /\ (image_count = 12 /\ batch_size = 5 /\ BothReturned /\ AlwaysContinue)
       => /\ [i \in 1 .. Len(batches) |-> Len(batches[i])] = << 5, 5, 2 >>
          /\ Len(answers) = 2

\* C5: if the sink replies END_TRANSFER to the first CONTINUE_TRANSFER
\* prompt, the source asks the data source for no further page and sends
\* nothing more, and both procedures return normally.
C5_EarlyTermination ==
  (answers # << >> /\ ~ShowNext(answers[1]))
    => /\ retrieved = 1
       /\ LastSent = send_enum("CONTINUE_TRANSFER")
       /\ Len(SelectSeq(sent, LAMBDA it : it = send_enum("START_BATCH"))) = 1
       /\ s2c = << >>
       /\ cli = "done"
       /\ IF c2s = << >> THEN srv = "done" ELSE ENABLED receive_sink_reply

C5_Witness ==
  /\ answers = << "n" >> /\ BothReturned /\ Len(batches) = 1

-----------------------------------------------------------------------------
(* The AEAD engine (Cipher), with an ideal MAC: a field is a token naming  *)
(* the message and the nonce it was made from; x = 1 marks bytes altered   *)
(* in transit.  A message is identified with its length in bytes.          *)

Payloads == 0 .. MaxLen

Field(kind, m, n) == [kind |-> kind, m |-> m, nonce |-> n, x |-> 0]

\* Cipher.encrypt with the n-th nonce drawn, and encrypt_and_send's
\* ciphertext_length = len(ciphertext).to_bytes(LENGTH_SIZE): EAX does not
\* pad, so len(ciphertext) = len(message).
encrypt(m, n) ==
  << Field("length", m, 0), Field("ciphertext", m, n),
     Field("tag", m, n), Field("nonce", 0, n) >>

\* Number of bytes of a field on the wire.
Size(tok) ==
  CASE tok.kind = "length" -> LENGTH_SIZE
    [] tok.kind = "ciphertext" -> tok.m
    [] tok.kind = "tag" -> TAG_SIZE
    [] tok.kind = "nonce" -> NONCE_SIZE
    [] OTHER -> 0

\* What decryption yields from altered bytes: some other message of the
\* same length.
Garbled(m) == -1 - m

\* A cipher that decrypts without checking the tag.
Verified_Unchecked(ct, tag, nonce) == TRUE

\* cipher.decrypt_and_verify: the tag check of AES-EAX.
Verified(ct, tag, nonce) ==
  /\ ct.kind = "ciphertext" /\ tag.kind = "tag" /\ nonce.kind = "nonce"
  /\ ct.x = 0 /\ tag.x = 0 /\ nonce.x = 0
  /\ ct.nonce = nonce.nonce /\ tag.nonce = nonce.nonce /\ tag.m = ct.m

\* The plaintext the stream cipher computes from the bytes it is given.
Plaintext(ct, nonce) ==
  IF ct.x = 0 /\ nonce.x = 0 /\ ct.nonce = nonce.nonce
  THEN ct.m ELSE Garbled(ct.m)

\* Cipher.decrypt: the message, or ValueError when verification fails.
decrypt(ct, tag, nonce) ==
  IF Verified(ct, tag, nonce)
  THEN [ok |-> TRUE, message |-> Plaintext(ct, nonce)]
  ELSE [ok |-> FALSE, message |-> 0]

\* "while not data": an empty message is falsy.
NotData(m) == m = 0

-----------------------------------------------------------------------------
(* Sender: Communicator.encrypt_and_send and send_data *)

batchFixed == << batchVars, sessVars, codecVars, cipherVars, shopVars >>
senderHist == << submitted, accepted, s_empty_read >>
receiverSide == << rpc, rfield, length, data, rtok, rframe, codes, delivered,
                   r_empty_read >>
senderSide == << spc, message, frame, sfield, nonce_ctr, tx, submitted,
                 accepted, s_empty_read >>

\* A code on the wire; "of" records which statement wrote it.
Code(c, of) == [code |-> c, of |-> of]

\* A sender that takes any code for an acceptance.
Acknowledged_AnyCode(code) == TRUE

\* "while code != Code.ACKNOWLEDGE"
Acknowledged(code) == code = "ack"

\* A sender that encrypts again inside the loop.
Retransmission_Reencrypted(fr, m, n) == encrypt(m, n)

\* The frame written on a retransmission: the one encrypted before the loop.
Retransmission(fr, m, n) == fr

\* encrypt_and_send(message): encrypt once, code = ERROR, enter the loop.
encrypt_and_send ==
  /\ spc = "idle" /\ ~sclosed
  /\ Len(submitted) < MaxFrames
  /\ \E m \in Payloads :
       /\ message' = m
       /\ frame' = encrypt(m, nonce_ctr + 1)
       /\ submitted' = Append(submitted, m)
  /\ nonce_ctr' = nonce_ctr + 1
  /\ sfield' = 1
  /\ tx' = << >> /\ faults' = 0 /\ attempt_bad' = FALSE
  /\ spc' = "send_data"
  /\ UNCHANGED << batchFixed, receiverSide, fwd, back, sclosed, rclosed,
                  accepted, s_empty_read >>

\* send_data: self.socket.sendall(data).  Nothing goes on the wire for b''.
\* With the peer gone the bytes are lost, or the call raises
\* BrokenPipeError / ConnectionResetError (both are ConnectionError).
send_data ==
  /\ spc = "send_data" /\ ~sclosed
  /\ tx' = Append(tx, frame[sfield])
  /\ attempt_bad' = IF sfield = 1 THEN FALSE ELSE attempt_bad
  /\ \/ /\ ~rclosed
        /\ fwd' = IF Size(frame[sfield]) = 0 THEN fwd
                  ELSE Append(fwd, [tok |-> frame[sfield],
                                    n |-> Size(frame[sfield])])
        /\ spc' = "ack"
     \/ /\ rclosed
        /\ fwd' = fwd
        /\ spc' \in { "ack", "ConnectionError" }
  /\ UNCHANGED << batchFixed, receiverSide, message, frame, sfield, nonce_ctr,
                  back, sclosed, rclosed, faults, senderHist >>

\* send_data: code = self.socket.recv(Code.get_size()); ConnectionError when
\* it is empty.  The code's value is not looked at.
send_data_ack ==
  /\ spc = "ack" /\ ~sclosed
  /\ \/ /\ back # << >>
        /\ back' = Tail(back)
        /\ IF sfield < 4
           THEN sfield' = sfield + 1 /\ spc' = "send_data"
           ELSE sfield' = sfield /\ spc' = "receive_code"
        /\ UNCHANGED s_empty_read
     \/ /\ back = << >> /\ rclosed
        /\ s_empty_read' = TRUE
        /\ spc' = "ConnectionError"
        /\ UNCHANGED << back, sfield >>
  /\ UNCHANGED << batchFixed, receiverSide, message, frame, nonce_ctr, fwd,
                  sclosed, rclosed, tx, faults, attempt_bad, submitted,
                  accepted >>

\* encrypt_and_send: code = self.receive_code(); return on ACKNOWLEDGE,
\* send the four fields again on ERROR.
receive_code ==
  /\ spc = "receive_code" /\ ~sclosed
  /\ \/ /\ back # << >>
        /\ back' = Tail(back)
        /\ IF Acknowledged(Head(back).code)
           THEN /\ spc' = "idle"
                /\ accepted' = accepted + 1
                /\ UNCHANGED << frame, sfield >>
           ELSE /\ spc' = "send_data"
                /\ sfield' = 1
                /\ frame' = Retransmission(frame, message, nonce_ctr + Len(tx))
                /\ UNCHANGED accepted
        /\ UNCHANGED s_empty_read
     \/ /\ back = << >> /\ rclosed
        /\ s_empty_read' = TRUE
        /\ spc' = "ConnectionError"
        /\ UNCHANGED << back, frame, sfield, accepted >>
  /\ UNCHANGED << batchFixed, receiverSide, message, nonce_ctr, fwd, sclosed,
                  rclosed, tx, faults, attempt_bad, submitted >>

-----------------------------------------------------------------------------
(* Receiver: Communicator.receive_and_decrypt and receive_data *)

\* The sizes socket.recv(bufsize) may return when avail > 0 bytes are
\* readable: anything from one byte to min(bufsize, avail); the two extremes
\* are explored.
RecvSizes(bufsize, avail) == { 1, Min(bufsize, avail) }

\* A receive_data that returns the field without acknowledging it.
FieldAck_Missing == << >>

\* receive_data's first statement after the loop that writes: the code it
\* sends for a field it has received.
FieldAck == << Code("ack", "field") >>

\* What the bytes collected by receive_data are: the field, if they are all
\* of it and nothing else.
Value(tok, n) == IF n = Size(tok) THEN tok ELSE [tok EXCEPT !.x = 1]

\* The length receive_and_decrypt passes to receive_data for field k.
FieldLength(k, fields) ==
  CASE k = 1 -> LENGTH_SIZE
    [] k = 2 -> fields[1].m          \* int.from_bytes(length, 'big')
    [] k = 3 -> TAG_SIZE
    [] k = 4 -> NONCE_SIZE

Altered(fields) == \E i \in 1 .. Len(fields) : fields[i].x = 1

\* receive_and_decrypt is called: data = None, first receive_data(LENGTH_SIZE).
receive_and_decrypt ==
  /\ rpc = "idle" /\ ~rclosed
  /\ Len(delivered) < MaxFrames
  /\ rpc' = "receive_data"
  /\ rfield' = 1 /\ length' = FieldLength(1, << >>) /\ data' = 0
  /\ rtok' = NoField /\ rframe' = << >> /\ codes' = << >>
  /\ UNCHANGED << batchFixed, senderSide, fwd, back, sclosed, rclosed, faults,
                  attempt_bad, delivered, r_empty_read >>

\* A receive_data that makes do with the first bytes it gets.
KeepReading_Once(d, l) == d = 0 /\ l > 0

\* receive_data: "while len(data) < length"
KeepReading(d, l) == d < l

\* receive_data: one pass of "while len(data) < length:
\* data.extend(self.socket.recv(length))".  At end of stream recv returns
\* b'', data stays as it is and the loop goes round again.
receive_data ==
  /\ rpc = "receive_data" /\ ~rclosed
  /\ KeepReading(data, length)
  /\ \/ /\ fwd # << >>
        /\ \E c \in RecvSizes(length, Head(fwd).n) :
             /\ data' = data + c
             /\ fwd' = IF c = Head(fwd).n THEN Tail(fwd)
                       ELSE [fwd EXCEPT ![1].n = @ - c]
        /\ rtok' = IF data = 0 \/ rtok = Head(fwd).tok THEN Head(fwd).tok
                   ELSE [rtok EXCEPT !.x = 1]
        /\ UNCHANGED r_empty_read
     \/ /\ fwd = << >> /\ sclosed
        /\ r_empty_read' = TRUE
        /\ UNCHANGED << data, fwd, rtok >>
  /\ UNCHANGED << batchFixed, senderSide, rpc, rfield, length, rframe, back,
                  sclosed, rclosed, codes, faults, attempt_bad, delivered >>

\* receive_data after the loop: "if not data: raise ConnectionError", then
\* send_code(Code.ACKNOWLEDGE) and return data; receive_and_decrypt goes on
\* to the next field or to decryption.
receive_data_return ==
  /\ rpc = "receive_data" /\ ~rclosed
  /\ ~KeepReading(data, length)
  /\ IF data = 0
     THEN /\ rpc' = "ConnectionError"
          /\ UNCHANGED << rfield, length, data, rtok, rframe, back >>
     ELSE \/ /\ back' = back \o FieldAck
             /\ rframe' = Append(rframe, Value(rtok, data))
             /\ data' = 0 /\ rtok' = NoField
             /\ IF rfield < 4
                THEN /\ rfield' = rfield + 1
                     /\ length' = FieldLength(rfield + 1, rframe')
                     /\ rpc' = "receive_data"
                ELSE /\ rpc' = "decrypt"
                     /\ UNCHANGED << rfield, length >>
          \/ /\ sclosed                   \* sendall to a peer that is gone
             /\ rpc' = "ConnectionError"
             /\ UNCHANGED << rfield, length, data, rtok, rframe, back >>
  /\ UNCHANGED << batchFixed, senderSide, fwd, sclosed, rclosed, codes, faults,
                  attempt_bad, delivered, r_empty_read >>

\* receive_and_decrypt: data = self.cipher.decrypt(...), then
\* send_code(ACKNOWLEDGE); on ValueError send_code(ERROR).  "while not data"
\* then returns the message or reads the next frame.
decrypt_and_reply ==
  /\ rpc = "decrypt" /\ ~rclosed
  /\ LET r == decrypt(rframe[2], rframe[3], rframe[4])
         c == IF r.ok THEN "ack" ELSE "err"
     IN /\ back' = Append(back, Code(c, "frame"))
        /\ codes' = Append(codes, [altered |-> Altered(rframe), code |-> c])
        /\ IF r.ok /\ ~NotData(r.message)
           THEN /\ delivered' = Append(delivered, r.message)
                /\ rpc' = "idle"
                /\ UNCHANGED << rfield, length >>
           ELSE /\ rpc' = "receive_data"
                /\ rfield' = 1 /\ length' = FieldLength(1, << >>)
                /\ UNCHANGED delivered
  /\ rframe' = << >> /\ data' = 0 /\ rtok' = NoField
  /\ UNCHANGED << batchFixed, senderSide, fwd, sclosed, rclosed, faults,
                  attempt_bad, r_empty_read >>

-----------------------------------------------------------------------------
(* The environment of the transport *)

\* Fields whose alteration the model explores: those covered by the tag.
Alterable == { "ciphertext", "tag", "nonce" }

\* The channel alters bytes of the field in flight.
alter_in_transit ==
  /\ fwd # << >>
  /\ Head(fwd).tok.kind \in Alterable
  /\ Head(fwd).tok.x = 0
  /\ Head(fwd).n = Size(Head(fwd).tok)
  /\ attempt_bad \/ faults < MaxFaults
  /\ fwd' = [fwd EXCEPT ![1].tok.x = 1]
  /\ attempt_bad' = TRUE
  /\ faults' = IF attempt_bad THEN faults ELSE faults + 1
  /\ UNCHANGED << batchFixed, senderSide, receiverSide, back, sclosed,
                  rclosed >>

\* The sending process exits or shuts its socket down.
sender_gone ==
  /\ ~sclosed
  /\ sclosed' = TRUE
  /\ UNCHANGED << batchFixed, senderSide, receiverSide, fwd, back, rclosed,
                  faults, attempt_bad >>

\* The receiving process exits or shuts its socket down.
receiver_gone ==
  /\ ~rclosed
  /\ rclosed' = TRUE
  /\ UNCHANGED << batchFixed, senderSide, receiverSide, fwd, back, sclosed,
                  faults, attempt_bad >>

-----------------------------------------------------------------------------
(* Specification of the framed transport *)

\* No streaming session runs above the transport.
StreamerIdle ==
  /\ entry = "none" /\ image_count = 0 /\ batch_size = DefaultBatchSize
  /\ srv = "done" /\ cli = "done"
  /\ images_sent = 0 /\ small = FALSE /\ images = << >> /\ idx = 0 /\ fld = 1
  /\ s2c = << >> /\ c2s = << >>
  /\ signal = "none" /\ image_batch = << >> /\ rec = << >> /\ batches = << >>
  /\ sent = << >> /\ retrieved = 0 /\ answers = << >>

InitFrame ==
  /\ StreamerIdle /\ TransportIdle /\ SessionIdle /\ CodecIdle /\ CipherIdle
  /\ ShopIdle

NextFrame ==
  \/ encrypt_and_send
  \/ send_data
  \/ send_data_ack
  \/ receive_code
  \/ receive_and_decrypt
  \/ receive_data
  \/ receive_data_return
  \/ decrypt_and_reply
  \/ alter_in_transit
  \/ sender_gone
  \/ receiver_gone

SpecFrame == InitFrame /\ [][NextFrame]_vars

-----------------------------------------------------------------------------
(* Properties of the framed transport *)

BothAlive == ~sclosed /\ ~rclosed

\* The next socket call of each party.
SenderWriting == spc = "send_data"
SenderReading == spc \in { "ack", "receive_code" }
ReceiverReading == rpc = "receive_data" /\ data < length
ReceiverWriting ==
  \/ rpc = "receive_data" /\ data >= length /\ data > 0
  \/ rpc = "decrypt"

\* receive_data(0), reached for the ciphertext of an empty message, reads
\* nothing and raises ConnectionError at "if not data".
ReceiverRaising ==
  \/ rpc = "receive_data" /\ data >= length /\ data = 0
  \/ rpc = "ConnectionError"

FieldOrder == << "length", "ciphertext", "tag", "nonce" >>

C7_TamperRejected ==
  /\ \A i \in 1 .. Len(codes) : codes[i].altered => codes[i].code = "err"
  /\ Len(delivered) <= Len(submitted)
  /\ \A i \in 1 .. Len(delivered) : delivered[i] = submitted[i]
  /\ (codes # << >> /\ codes[Len(codes)].code = "err")
        => (rpc \in { "receive_data", "decrypt", "ConnectionError" }
            /\ Len(delivered) < Len(submitted))

C7_Witness ==
  /\ Len(codes) = 2 /\ codes[1].altered /\ codes[1].code = "err"
  /\ codes[2].code = "ack" /\ rpc = "idle" /\ Len(delivered) = 1

\* A step of the sender or of the receiver.
TransferStep ==
  \/ send_data \/ send_data_ack \/ receive_code
  \/ receive_and_decrypt \/ receive_data \/ receive_data_return
  \/ decrypt_and_reply

\* The frame codes of a call whose first k attempts were rejected.
ErrorsThenAck(k) ==
  [i \in 1 .. k + 1 |-> IF i <= k THEN "err" ELSE "ack"]

C9_SameFrameRetransmitted ==
  \A i \in 1 .. Len(tx) : tx[i] = tx[((i - 1) % 4) + 1]

C9_Witness ==
  /\ Len(tx) = 8 /\ faults >= 1 /\ accepted = 0 /\ spc = "ack"

\* C10: whenever a socket read returns zero bytes, at the code read of
\* send_data, in receive_code, or at a field read of receive_data, the
\* operation raises ConnectionError instead of going on or waiting.
C10_EmptyReadRaises ==
  /\ s_empty_read => spc = "ConnectionError"
  /\ r_empty_read => rpc = "ConnectionError"

-----------------------------------------------------------------------------
(* The session layer: server main() and ServerCommander, client do_*      *)

\* Number of records a search or a browse may match.
MaxMatches == 6
\* Connections the server accepts, and commands one client issues.
MaxSessions == 2
MaxCommands == 2

\* The members of Command, as the keys of ServerCommander.commands.
Command == { "LOGIN", "ADD_IMAGE", "CREATE_USER", "SEARCH_BY_IMAGE",
             "BROWSE_BY_TAG", "EXIT" }

\* A dispatch that falls back to a handler for a string it does not know.
receive_enum_Command_Default(item) ==
  IF item.kind = "string" /\ item.name \in Command THEN item.name ELSE "LOGIN"

\* receive_enum(Command): Command(receive_string()); ValueError on a string
\* that is no member value.
receive_enum_Command(item) ==
  IF item.kind = "string" /\ item.name \in Command
  THEN item.name ELSE "ValueError"

\* A value whose payload has no bytes: the empty string.
EmptyPayload(item) == item.kind = "string" /\ item.name = ""

srvSess == << main, command, expect, username, propagated, server_sock,
              key_file, key_accesses, keys, sessions, executed, reads,
              logins, db_session >>
cliSess == << cpc, ccmd, outbox, user, client_sock, issued, send_skipped >>
srvBatch == << entry, image_count, srv, images_sent, small, images, idx, fld,
               sent, retrieved >>
cliBatch == << cli, signal, image_batch, rec, batches, answers >>
lowerVars == << batch_size, frameVars, codecVars, cipherVars, shopVars >>

\* secret.key does not exist.
Absent == 0

\* Cipher.create_secret_key: a fresh key, written to secret.key.
create_secret_key ==
  [key |-> key_file + key_accesses + 1, file |-> key_file + key_accesses + 1]

\* A Cipher that generates a key without looking for secret.key.
retrieve_secret_key_AlwaysCreates == create_secret_key

\* Cipher.retrieve_secret_key: the key read from secret.key when the file
\* exists, otherwise a key that is generated and written.
retrieve_secret_key ==
  IF key_file # Absent
  THEN [key |-> key_file, file |-> key_file]
  ELSE create_secret_key

\* main: (conn, addr) = s.accept(); commander = ServerCommander(conn), whose
\* Communicator constructs a Cipher.  The peer is a new client process, at
\* its prompt.
accept ==
  /\ main = "accept"
  /\ cpc \notin { "prompt", "send", "result", "stream" }
  /\ sessions < MaxSessions
  /\ sessions' = sessions + 1
  /\ key_accesses' = key_accesses + 1
  /\ keys' = Append(keys, retrieve_secret_key.key)
  /\ key_file' = retrieve_secret_key.file
  /\ username' = FALSE /\ command' = "none" /\ expect' = << >>
  /\ executed' = << >> /\ reads' = 0
  /\ server_sock' = "open" /\ client_sock' = "open"
  /\ cpc' = "prompt" /\ ccmd' = "none" /\ outbox' = << >> /\ user' = FALSE
  /\ issued' = 0 /\ send_skipped' = FALSE /\ logins' = << >>
  /\ db_session' = "open"
  /\ s2c' = << >> /\ c2s' = << >>
  /\ main' = "receive_command"
  /\ UNCHANGED << propagated, srvBatch, cliBatch, lowerVars >>

\* The receive calls a handler makes before it answers.
Requests(c) ==
  CASE c \in { "CREATE_USER", "LOGIN" } -> << "string", "string" >>
    [] c = "ADD_IMAGE" -> << "image", "string", "float", "int", "list" >>
    [] c = "SEARCH_BY_IMAGE" -> << "image", "string" >>
    [] c = "BROWSE_BY_TAG" -> << "list" >>
    [] OTHER -> << >>

\* A server whose handlers do not test the login.
NeedsLogin_Never(c) == FALSE

\* "if not self.check_if_logged_in(): return" opens add_image,
\* search_by_image and browse_by_tag.
NeedsLogin(c) == c \in { "ADD_IMAGE", "SEARCH_BY_IMAGE", "BROWSE_BY_TAG" }

\* receive_and_execute_command: command = receive_enum(Command), then
\* dispatch_command: self.commands[command]() up to the handler's first
\* receive.  EXIT runs close_connection, whose ClientDisconnectException
\* main catches: break, and the with block closes conn.
\* main without its "except ClientDisconnectException" clause.
AfterClientDisconnect_Uncaught == "terminated"

\* main: "except ClientDisconnectException: break" leaves the command loop
\* for the accept loop.
AfterClientDisconnect == "accept"

receive_and_execute_command ==
  /\ main = "receive_command" /\ server_sock = "open"
  /\ c2s # << >>
  /\ reads' = reads + 1
  /\ IF EmptyPayload(Head(c2s))
     THEN /\ main' = "except_ConnectionError"
          /\ UNCHANGED << c2s, command, expect, executed, server_sock,
                          propagated >>
     ELSE LET c == receive_enum_Command(Head(c2s)) IN
       /\ c2s' = Tail(c2s)
       /\ IF c = "ValueError"
          THEN /\ propagated' = "ValueError"
               /\ main' = "terminated"
               /\ server_sock' = "closed"
               /\ UNCHANGED << command, expect, executed >>
          ELSE /\ executed' = Append(executed, c)
               /\ UNCHANGED propagated
               /\ IF c = "EXIT"
                  THEN /\ server_sock' = "closed"
                       /\ main' = AfterClientDisconnect
                       /\ UNCHANGED << command, expect >>
                  ELSE IF NeedsLogin(c) /\ ~username
                  THEN /\ main' = "receive_command"
                       /\ UNCHANGED << command, expect, server_sock >>
                  ELSE /\ command' = c
                       /\ expect' = Requests(c)
                       /\ main' = "handler"
                       /\ UNCHANGED server_sock
  /\ db_session' = IF Head(c2s) = send_enum("EXIT") THEN "closed"
                   ELSE db_session
  /\ UNCHANGED << username, key_file, key_accesses, keys, sessions, logins, s2c,
                  cliSess, srvBatch, cliBatch, lowerVars >>

\* The exception a receive call raises on the value it is given, "none"
\* when it returns: receive_enum(Signal) of receive_list raises ValueError,
\* Image.open raises UnidentifiedImageError on bytes that are no image.
ReceiveError(call, item) ==
  CASE call = "list" /\ receive_enum(item) = "ValueError" -> "ValueError"
    [] call = "image" /\ item.kind # "image" -> "UnidentifiedImageError"
    [] OTHER -> "none"

\* One receive call of create_user, login, add_image, search_by_image or
\* browse_by_tag.  receive_data(0) raises ConnectionError before the empty
\* ciphertext is acknowledged.  receive_list reads the bytes only after a
\* signal other than EMPTY.
handler_receive ==
  /\ main = "handler" /\ server_sock = "open"
  /\ expect # << >> /\ c2s # << >>
  /\ IF EmptyPayload(Head(c2s))
     THEN /\ main' = "except_ConnectionError"
          /\ UNCHANGED << c2s, expect, propagated, server_sock >>
     ELSE /\ c2s' = Tail(c2s)
          /\ IF ReceiveError(Head(expect), Head(c2s)) # "none"
             THEN /\ propagated' = ReceiveError(Head(expect), Head(c2s))
                  /\ main' = "terminated"
                  /\ server_sock' = "closed"
                  /\ UNCHANGED expect
             ELSE /\ expect' = IF Head(expect) = "list"
                                  /\ receive_enum(Head(c2s)) # "EMPTY"
                               THEN << "bytes" >> \o Tail(expect)
                               ELSE Tail(expect)
                  /\ UNCHANGED << main, propagated, server_sock >>
  /\ UNCHANGED << command, username, key_file, key_accesses, keys, sessions, logins,
                  db_session,
                  executed, reads, s2c, cliSess, srvBatch, cliBatch,
                  lowerVars >>

\* Database.create_user: False when the user name is already in use,
\* otherwise the user is stored and True is returned.
db_create_user(user_exists) == ~user_exists

\* A verify_user that lets an unknown user name in.
db_verify_user_Lenient(user_exists, matches) == ~user_exists \/ matches

\* Database.verify_user: False when the user does not exist, otherwise the
\* result of pbkdf2_sha256.verify on the stored hash.
db_verify_user(user_exists, matches) ==
  IF ~user_exists THEN FALSE ELSE matches

\* What the database holds for the credentials of a login.
Found(user_exists, matches) ==
  IF ~user_exists THEN "unknown_user"
  ELSE IF matches THEN "match" ELSE "wrong_password"

\* create_user and login after their two strings: db.create_user /
\* db.verify_user decides; on success self.username is set and SUCCESS is
\* sent, otherwise FAILURE.
create_user_login ==
  /\ main = "handler" /\ server_sock = "open"
  /\ command \in { "CREATE_USER", "LOGIN" } /\ expect = << >>
  /\ ServerReady
  /\ \E user_exists \in BOOLEAN, matches \in BOOLEAN :
       LET ok == IF command = "LOGIN"
                 THEN db_verify_user(user_exists, matches)
                 ELSE db_create_user(user_exists)
       IN /\ username' = (username \/ ok)
          /\ ServerSend(send_enum(IF ok THEN "SUCCESS" ELSE "FAILURE"))
          /\ logins' = IF command = "LOGIN"
                       THEN Append(logins, Found(user_exists, matches))
                       ELSE logins
  /\ main' = "return"
  /\ UNCHANGED << command, expect, propagated, server_sock, key_file,
                  key_accesses, keys, sessions, db_session, executed, reads,
                  c2s, cliSess,
                  entry, image_count, srv, images_sent, small, images, idx,
                  fld, retrieved, cliBatch, lowerVars >>

\* add_image after its five values: FAILURE when the file name or the image
\* already exists, otherwise SUCCESS.
add_image ==
  /\ main = "handler" /\ server_sock = "open"
  /\ command = "ADD_IMAGE" /\ expect = << >>
  /\ ServerReady
  /\ \E ok \in BOOLEAN :
       ServerSend(send_enum(IF ok THEN "SUCCESS" ELSE "FAILURE"))
  /\ main' = "return"
  /\ UNCHANGED << command, expect, username, propagated, server_sock,
                  key_file, key_accesses, keys, sessions, logins, db_session,
                  executed, reads,
                  c2s, cliSess, entry, image_count, srv, images_sent, small,
                  images, idx, fld, retrieved, cliBatch, lowerVars >>

\* search_by_image after the image and its name, browse_by_tag after the
\* tags: the number of matches is computed and the handler goes on as
\* modelled by the batch streamer.
count_matches ==
  /\ main = "handler" /\ server_sock = "open"
  /\ command \in { "SEARCH_BY_IMAGE", "BROWSE_BY_TAG" } /\ expect = << >>
  /\ ServerReady
  /\ entry' = IF command = "SEARCH_BY_IMAGE" THEN "search_by_image"
              ELSE "browse_by_tag"
  /\ image_count' \in 0 .. MaxMatches
  /\ srv' = "handler"
  /\ images_sent' = 0 /\ small' = FALSE /\ images' = << >> /\ idx' = 0
  /\ fld' = 1 /\ sent' = << >> /\ retrieved' = 0
  /\ main' = "stream"
  /\ UNCHANGED << command, expect, username, propagated, server_sock,
                  key_file, key_accesses, keys, sessions, logins, db_session,
                  executed, reads,
                  s2c, c2s, cliSess, cliBatch, lowerVars >>

\* The handler returns to main's loop once its last send has returned; an
\* exception of the streamer other than ConnectionError leaves main.
handler_return ==
  /\ server_sock = "open"
  /\ \/ /\ main = "return" /\ ServerReady
        /\ main' = "receive_command"
        /\ UNCHANGED << srv, propagated, server_sock >>
     \/ /\ main = "stream" /\ srv = "done" /\ ServerReady
        /\ main' = "receive_command"
        /\ UNCHANGED << propagated, server_sock, srv >>
     \/ /\ main = "stream" /\ srv = "error"
        /\ main' = "terminated" /\ propagated' = "ValueError"
        /\ server_sock' = "closed"
        /\ srv' = "done"
  /\ command' = "none"
  /\ UNCHANGED << expect, username, key_file, key_accesses, keys, sessions, logins,
                  db_session,
                  executed, reads, s2c, c2s, cliSess, entry, image_count,
                  images_sent, small, images, idx, fld, sent, retrieved,
                  cliBatch, lowerVars >>

\* A send of the server whose peer is gone: send_data reads no code (or
\* sendall fails) and ConnectionError is raised in the handler.
server_send_fails ==
  /\ main \in { "return", "stream" } /\ server_sock = "open"
  /\ s2c # << >> /\ client_sock = "closed"
  /\ main' = "except_ConnectionError"
  /\ srv' = "done"
  /\ UNCHANGED << command, expect, username, propagated, server_sock,
                  key_file, key_accesses, keys, sessions, logins, db_session,
                  executed, reads,
                  s2c, c2s, cliSess, entry, image_count, images_sent, small,
                  images, idx, fld, sent, retrieved, cliBatch, lowerVars >>

\* main: "except ConnectionError: commander.close_connection(); break".
\* close_connection closes the database and the socket and raises
\* ClientDisconnectException; raised inside the except clause it is caught
\* by no clause of the same try statement and leaves main.  The record is
\* main's position and the exception that left it.
AfterConnectionError ==
  [main |-> "terminated", propagated |-> "ClientDisconnectException"]

except_ConnectionError ==
  /\ main = "except_ConnectionError"
  /\ server_sock' = "closed"
  /\ db_session' = "closed"
  /\ main' = AfterConnectionError.main
  /\ propagated' = AfterConnectionError.propagated
  /\ command' = "none"
  /\ UNCHANGED << expect, username, key_file, key_accesses, keys, sessions, logins,
                  executed, reads, s2c, c2s, cliSess, srvBatch, cliBatch,
                  lowerVars >>

-----------------------------------------------------------------------------
(* Client: ClientPrompt *)

\* What the user types at getpass: nothing, or a password.
Passwords == { "", "secret" }

\* The tag selections of the user.
TagLists == { << >>, << 1 >> }

\* send_list in the session: EMPTY, or POPULATED and the packed bytes.
ListItems(tags) ==
  IF tags = << >> THEN << send_enum("EMPTY") >>
  ELSE << send_enum("POPULATED"), Item("bytes", "tags", Len(tags)) >>

\* Communicator.send_image: the values it transmits.  FileNotFoundError and
\* UnidentifiedImageError are caught and printed: nothing is transmitted and
\* the call returns.
send_image(found) ==
  IF found THEN << Item("image", "image", 0) >> ELSE << >>

\* The start of a do_* command: send_command(c), then the values.
Issue(c, values) ==
  /\ cpc = "prompt" /\ client_sock = "open"
  /\ issued < MaxCommands
  /\ issued' = issued + 1
  /\ ccmd' = c
  /\ outbox' = << send_enum(c) >> \o values
  /\ cpc' = "send"
  /\ UNCHANGED << user, client_sock, srvSess, s2c, c2s, srvBatch, cliBatch,
                  lowerVars >>

\* do_create_user: a user name that is not empty, and the password.
do_create_user ==
  \E pw \in Passwords :
    /\ Issue("CREATE_USER",
             << Item("string", "username", 0), Item("string", pw, 0) >>)
    /\ send_skipped' = FALSE

\* do_login, through verify_password.
do_login ==
  \E pw \in Passwords :
    /\ Issue("LOGIN",
             << Item("string", "username", 0), Item("string", pw, 0) >>)
    /\ send_skipped' = FALSE

\* do_add_image: the image, its name, the price, the quantity, the tags.
do_add_image ==
  /\ user
  /\ \E tags \in TagLists, found \in BOOLEAN :
       /\ Issue("ADD_IMAGE",
                send_image(found)
                  \o << Item("string", "filename", 0),
                        Item("float", "price", 0),
                        Item("int", "quantity", 0) >>
                  \o ListItems(tags))
       /\ send_skipped' = ~found

\* do_search_by_image: the image and its name.
do_search_by_image ==
  /\ user
  /\ \E found \in BOOLEAN :
       /\ Issue("SEARCH_BY_IMAGE",
                send_image(found) \o << Item("string", "filename", 0) >>)
       /\ send_skipped' = ~found

\* do_browse_by_tag: the tags.
do_browse_by_tag ==
  /\ user
  /\ \E tags \in TagLists :
       /\ Issue("BROWSE_BY_TAG", ListItems(tags))
       /\ send_skipped' = FALSE

\* do_exit: send_command(Command.EXIT), then shutdown.
do_exit ==
  /\ Issue("EXIT", << >>)
  /\ send_skipped' = FALSE

\* A peer that sends, where a command is read, a string that is no member
\* of Command.
foreign_command ==
  /\ cpc = "prompt" /\ client_sock = "open"
  /\ issued < MaxCommands
  /\ issued' = issued + 1
  /\ ccmd' = "UNKNOWN"
  /\ outbox' = << Item("string", "UNKNOWN", 0) >>
  /\ cpc' = "send"
  /\ send_skipped' = FALSE
  /\ UNCHANGED << user, client_sock, srvSess, s2c, c2s, srvBatch, cliBatch,
                  lowerVars >>

\* A peer that is not logged in and sends add_image, search_by_image or
\* browse_by_tag with its values all the same: the server's handlers do not
\* rely on the check ClientPrompt makes before it sends.
unchecked_command ==
  /\ ~user
  /\ \E c \in { "ADD_IMAGE", "SEARCH_BY_IMAGE", "BROWSE_BY_TAG" } :
       Issue(c, IF c = "BROWSE_BY_TAG" THEN ListItems(<< 1 >>)
                ELSE send_image(TRUE) \o << Item("string", "filename", 0) >>)
  /\ send_skipped' = FALSE

\* The next send of the command: encrypt_and_send returns once the server
\* has taken the value.
client_send ==
  /\ cpc = "send" /\ client_sock = "open" /\ server_sock = "open"
  /\ outbox # << >> /\ ClientReady
  /\ c2s' = Append(c2s, Head(outbox))
  /\ outbox' = Tail(outbox)
  /\ UNCHANGED << cpc, ccmd, user, client_sock, issued, send_skipped, srvSess,
                  s2c, srvBatch, cliBatch, lowerVars >>

\* After the last send: the commands go on to their receive, do_exit to
\* communicator.shutdown() and SystemExit.
client_sent ==
  /\ cpc = "send" /\ client_sock = "open"
  /\ outbox = << >> /\ ClientReady
  /\ cpc' = CASE ccmd \in { "CREATE_USER", "LOGIN", "ADD_IMAGE" } -> "result"
              [] ccmd \in { "SEARCH_BY_IMAGE", "BROWSE_BY_TAG" } -> "stream"
              [] ccmd = "EXIT" -> "exited"
              [] OTHER -> "prompt"
  /\ client_sock' = IF ccmd = "EXIT" THEN "closed" ELSE client_sock
  /\ IF ccmd \in { "SEARCH_BY_IMAGE", "BROWSE_BY_TAG" }
     THEN /\ cli' = "availability"
          /\ signal' = "none" /\ image_batch' = << >> /\ rec' = << >>
          /\ batches' = << >> /\ answers' = << >>
     ELSE UNCHANGED cliBatch
  /\ UNCHANGED << ccmd, outbox, user, issued, send_skipped, srvSess, s2c, c2s,
                  srvBatch, lowerVars >>

\* A send of the client whose peer has closed the connection: send_data
\* reads no code and raises ConnectionError, which do_exit alone catches.
client_send_fails ==
  /\ cpc = "send" /\ client_sock = "open" /\ server_sock = "closed"
  /\ outbox # << >> \/ c2s # << >>
  /\ cpc' = IF ccmd = "EXIT" THEN "exited" ELSE "ConnectionError"
  /\ client_sock' = "closed"
  /\ UNCHANGED << ccmd, outbox, user, issued, send_skipped, srvSess, s2c, c2s,
                  srvBatch, cliBatch, lowerVars >>

\* result = receive_enum(Signal) of do_create_user, verify_password and
\* do_add_image; do_login sets self.user on SUCCESS.
\* do_login: "if self.verify_password(username, password) == Signal.SUCCESS",
\* negated below for the test.
LoggedIn_AnyReply(c, r) == c = "LOGIN"

LoggedIn(c, r) == c = "LOGIN" /\ r = "SUCCESS"

client_result ==
  /\ cpc = "result" /\ client_sock = "open"
  /\ s2c # << >>
  /\ s2c' = Tail(s2c)
  /\ LET r == receive_enum(Head(s2c)) IN
       /\ cpc' = IF r = "ValueError" THEN "ValueError" ELSE "prompt"
       /\ user' = (user \/ LoggedIn(ccmd, r))
  /\ UNCHANGED << ccmd, outbox, client_sock, issued, send_skipped, srvSess,
                  c2s, srvBatch, cliBatch, lowerVars >>

\* do_search_by_image / do_browse_by_tag return when the streamer's client
\* side has.
client_stream_return ==
  /\ cpc = "stream" /\ client_sock = "open"
  /\ \/ cli = "done" /\ ClientReady /\ cpc' = "prompt"
     \/ cli = "error" /\ cpc' = "ValueError"
  /\ cli' = "done"
  /\ UNCHANGED << ccmd, outbox, user, client_sock, issued, send_skipped,
                  srvSess, s2c, c2s, srvBatch, signal, image_batch, rec,
                  batches, answers, lowerVars >>

\* The client process ends without do_exit.
client_killed ==
  /\ cpc \in { "prompt", "send", "result", "stream" }
  /\ client_sock = "open"
  /\ cpc' = "killed"
  /\ client_sock' = "closed"
  /\ cli' = "done"
  /\ UNCHANGED << ccmd, outbox, user, issued, send_skipped, srvSess, s2c, c2s,
                  srvBatch, signal, image_batch, rec, batches, answers,
                  lowerVars >>

-----------------------------------------------------------------------------
(* Specification of the session layer *)

InitSession ==
  /\ StreamerIdle /\ TransportIdle /\ CodecIdle /\ CipherIdle /\ ShopIdle
  /\ main = "accept" /\ command = "none" /\ expect = << >>
  /\ username = FALSE /\ propagated = "none" /\ server_sock = "none"
  /\ cpc = "none" /\ ccmd = "none" /\ outbox = << >> /\ user = FALSE
  /\ client_sock = "none"
  /\ key_file \in { Absent, 1 } /\ key_accesses = 0 /\ keys = << >>
  /\ sessions = 0 /\ issued = 0 /\ executed = << >> /\ reads = 0
  /\ send_skipped = FALSE /\ logins = << >> /\ db_session = "none"

NextSession ==
  \/ accept
  \/ receive_and_execute_command
  \/ handler_receive
  \/ create_user_login
  \/ add_image
  \/ count_matches
  \/ handler_return
  \/ server_send_fails
  \/ except_ConnectionError
  \/ do_create_user
  \/ do_login
  \/ do_add_image
  \/ do_search_by_image
  \/ do_browse_by_tag
  \/ do_exit
  \/ foreign_command
  \/ unchecked_command
  \/ client_send
  \/ client_sent
  \/ client_send_fails
  \/ client_result
  \/ client_stream_return
  \/ client_killed
  \/ NextBatch

SpecSession == InitSession /\ [][NextSession]_vars

-----------------------------------------------------------------------------
(* Properties of the session layer *)

\* C11: when a session hits a ConnectionError while a command is received
\* or executed, the server tears the session down (the connection is
\* closed) and then is back in its accept loop, ready for the next
\* connection.
C11_BackToAccept ==
  [][main = "except_ConnectionError"
       => (server_sock' = "closed" /\ main' = "accept")]_vars

\* The commands of C12.
Exchanges == { "CREATE_USER", "LOGIN", "ADD_IMAGE", "SEARCH_BY_IMAGE",
               "BROWSE_BY_TAG" }

\* The server's next receive call is receive_enum(Command).
ServerAtCommandRead ==
  \/ main = "receive_command"
  \/ main = "return" /\ ServerReady
  \/ main = "stream" /\ srv = "done" /\ ServerReady

\* The client's command has returned to the prompt, all of its sends having
\* transmitted their value, and the connection is up.
ExchangeEnded ==
  /\ cpc = "prompt" /\ ccmd \in Exchanges /\ ClientReady
  /\ ~send_skipped
  /\ client_sock = "open" /\ server_sock = "open"

\* C12: for each of create_user, login, add_image, search_by_image and
\* browse_by_tag and every outcome on the server, when the exchange has
\* ended no value sent by one side is left unconsumed by the other and the
\* server's next read is that of the next command.
C12_ExchangeAligned ==
  ExchangeEnded => (s2c = << >> /\ c2s = << >> /\ ServerAtCommandRead)

-----------------------------------------------------------------------------
(* The typed value codec.  A payload is a sequence of bytes; a string is a *)
(* sequence of code points.                                                *)

\* Longest string and longest list the model draws.
MaxStr == 2
MaxList == 2

Byte == 0 .. 255

RECURSIVE Concat(_)
Concat(qq) == IF qq = << >> THEN << >> ELSE Head(qq) \o Concat(Tail(qq))

\* Sequences over S of length at most n.
SeqsUpTo(S, n) == UNION { [1 .. k -> S] : k \in 0 .. n }

\* The outcome of a call: the value returned, or the exception raised.
Ok(v) == [err |-> "none", v |-> v]
Raise(e) == [err |-> e, v |-> << >>]

\* integer.to_bytes(4, byteorder='big'): signed is False by default, so a
\* negative integer raises OverflowError, as does one of more than 32 bits.
to_bytes(v) ==
  IF v < 0 THEN Raise("OverflowError")
  ELSE Ok(<< v \div 16777216, (v \div 65536) % 256, (v \div 256) % 256,
             v % 256 >>)

\* int.from_bytes(b, byteorder='big'), unsigned.
RECURSIVE from_bytes(_)
from_bytes(b) ==
  IF b = << >> THEN 0
  ELSE 256 * from_bytes(SubSeq(b, 1, Len(b) - 1)) + b[Len(b)]

\* The utf8 encoding of one code point below 65536.
EncodeChar(c) ==
  IF c < 128 THEN << c >>
  ELSE IF c < 2048 THEN << 192 + (c \div 64), 128 + (c % 64) >>
  ELSE << 224 + (c \div 4096), 128 + ((c \div 64) % 64), 128 + (c % 64) >>

\* string.encode('utf8')
encode(string) == Concat([i \in 1 .. Len(string) |-> EncodeChar(string[i])])

IsContinuation(b) == b \in 128 .. 191

\* Number of bytes of the well-formed sequence b starts with, 0 if none.
LeadLength(b) ==
  IF b[1] < 128 THEN 1
  ELSE IF b[1] \in 194 .. 223 /\ Len(b) >= 2 /\ IsContinuation(b[2]) THEN 2
  ELSE IF b[1] \in 224 .. 239 /\ Len(b) >= 3 /\ IsContinuation(b[2])
          /\ IsContinuation(b[3])
          /\ (b[1] - 224) * 4096 + (b[2] - 128) * 64 + (b[3] - 128) >= 2048
  THEN 3
  ELSE 0

\* The code point of the sequence of n bytes b starts with.
DecodeChar(b, n) ==
  CASE n = 1 -> b[1]
    [] n = 2 -> (b[1] - 192) * 64 + (b[2] - 128)
    [] n = 3 -> (b[1] - 224) * 4096 + (b[2] - 128) * 64 + (b[3] - 128)

RECURSIVE WellFormed(_)
WellFormed(b) ==
  \/ b = << >>
  \/ /\ LeadLength(b) > 0
     /\ WellFormed(SubSeq(b, LeadLength(b) + 1, Len(b)))

RECURSIVE DecodeChars(_)
DecodeChars(b) ==
  IF b = << >> THEN << >>
  ELSE << DecodeChar(b, LeadLength(b)) >>
         \o DecodeChars(SubSeq(b, LeadLength(b) + 1, Len(b)))

\* bytes.decode('utf8'): the string, or UnicodeDecodeError.
decode(b) ==
  IF WellFormed(b) THEN Ok(DecodeChars(b)) ELSE Raise("UnicodeDecodeError")

\* The value of a member of Signal, as code points.
SignalValue(e) ==
  CASE e = "SUCCESS" ->
      << 83, 85, 67, 67, 69, 83, 83 >>
    [] e = "FAILURE" ->
      << 70, 65, 73, 76, 85, 82, 69 >>
    [] e = "EMPTY" ->
      << 69, 77, 80, 84, 89 >>
    [] e = "POPULATED" ->
      << 80, 79, 80, 85, 76, 65, 84, 69, 68 >>
    [] e = "NO_RESULTS" ->
      << 78, 79, 95, 82, 69, 83, 85, 76, 84, 83 >>
    [] e = "SEARCH_RESULTS" ->
      << 83, 69, 65, 82, 67, 72, 95, 82, 69, 83, 85, 76, 84, 83 >>
    [] e = "START_TRANSFER" ->
      << 83, 84, 65, 82, 84, 95, 84, 82, 65, 78, 83, 70, 69, 82 >>
    [] e = "CONTINUE_TRANSFER" ->
      << 67, 79, 78, 84, 73, 78, 85, 69, 95, 84, 82, 65, 78, 83, 70, 69, 82 >>
    [] e = "END_TRANSFER" ->
      << 69, 78, 68, 95, 84, 82, 65, 78, 83, 70, 69, 82 >>
    [] e = "START_BATCH" ->
      << 83, 84, 65, 82, 84, 95, 66, 65, 84, 67, 72 >>
    [] e = "CONTINUE_BATCH" ->
      << 67, 79, 78, 84, 73, 78, 85, 69, 95, 66, 65, 84, 67, 72 >>
    [] e = "END_BATCH" ->
      << 69, 78, 68, 95, 66, 65, 84, 67, 72 >>
    [] OTHER -> << >>

\* A receive_enum that answers a member for any string.
Enum_Default(string) ==
  IF \E e \in Signal : SignalValue(e) = string
  THEN Ok(CHOOSE e \in Signal : SignalValue(e) = string)
  ELSE Ok("FAILURE")

\* enum_type(value) for enum_type = Signal: the member with that value, or
\* ValueError.
Enum(string) ==
  IF \E e \in Signal : SignalValue(e) = string
  THEN Ok(CHOOSE e \in Signal : SignalValue(e) = string)
  ELSE Raise("ValueError")

\* bytes(list_variable): ValueError unless every element is in range(256).
bytes(list) ==
  IF \A i \in 1 .. Len(list) : list[i] \in Byte
  THEN Ok(list) ELSE Raise("ValueError")

\* struct.pack('>f', x) for the floats the model draws, named by their
\* decimal expansion: the IEEE-754 single nearest to x, big-endian;
\* OverflowError when x is too large for a single.
pack_f(x) ==
  CASE x = "0.0" -> Ok(<< 0, 0, 0, 0 >>)
    [] x = "0.5" -> Ok(<< 63, 0, 0, 0 >>)
    [] x = "1.0" -> Ok(<< 63, 128, 0, 0 >>)
    [] x = "-2.0" -> Ok(<< 192, 0, 0, 0 >>)
    [] x = "0.1" -> Ok(<< 61, 204, 204, 205 >>)
    [] OTHER -> Raise("OverflowError")

\* struct.unpack('>f', buffer)[0]: struct.error unless there are four bytes.
unpack_f(buffer) ==
  IF Len(buffer) # 4 THEN Raise("struct.error")
  ELSE CASE buffer = << 0, 0, 0, 0 >> -> Ok("0.0")
         [] buffer = << 63, 0, 0, 0 >> -> Ok("0.5")
         [] buffer = << 63, 128, 0, 0 >> -> Ok("1.0")
         [] buffer = << 192, 0, 0, 0 >> -> Ok("-2.0")
         [] buffer = << 61, 204, 204, 205 >> -> Ok("0.10000000149011612")
         [] OTHER -> Ok("other")

\* The bytes PIL writes for an image file (a JPEG starts with FF D8).
ImageBytes == << 255, 216 >>

\* Image.open(image_path) followed by save: FileNotFoundError for a path
\* that does not exist, UnidentifiedImageError for a file that is no image.
OpenImage(file) ==
  CASE file = "image" -> Ok(ImageBytes)
    [] file = "missing" -> Raise("FileNotFoundError")
    [] OTHER -> Raise("UnidentifiedImageError")

\* The inputs of the model.
Ints == { -2147483647 - 1, -65536, -1, 0, 1, 255, 256, 65536, 16777216,
          2147483647 }
Floats == { "0.0", "0.5", "1.0", "-2.0", "0.1", "1e39" }
CodePoints == { 65, 233, 8364 }
Strings == SeqsUpTo(CodePoints, MaxStr)
Elements == { -1, 0, 1, 255, 256 }
Lists == SeqsUpTo(Elements, MaxList)
Files == { "image", "missing", "not_an_image" }
\* Strings a peer may send where an enum is read: values of members, and
\* strings that are no value of any member.
EnumStrings ==
  { SignalValue(e) : e \in Signal }
    \cup { << 69 >>, << 101, 109, 112, 116, 121 >>, << 69, 77, 80, 84, 89, 32 >> }

\* A step of a send_* call: a payload passed to encrypt_and_send, or an
\* exception raised.
Transmit(p) == [act |-> "frame", p |-> p, e |-> "none"]
Raises(e) == [act |-> "raise", p |-> << >>, e |-> e]
Step(outcome) ==
  IF outcome.err = "none" THEN Transmit(outcome.v) ELSE Raises(outcome.err)

\* Where the sender is before the first step of steps.
Before(steps) ==
  IF steps = << >> THEN "returned"
  ELSE IF Head(steps).act = "raise" THEN Head(steps).e
  ELSE "encrypt_and_send"

Call(op, steps) ==
  /\ spos = "call" /\ sop = op
  /\ plan' = steps
  /\ spos' = Before(steps)
  /\ UNCHANGED << sop, arg, frames, wire, rop, rpos, result, batchVars,
                  frameVars, sessVars, cipherVars, shopVars >>

\* send_int: encrypt_and_send(integer.to_bytes(4, byteorder='big'))
send_int == Call("int", << Step(to_bytes(arg)) >>)

\* send_float: encrypt_and_send(struct.pack('>f', floating_point_number))
send_float == Call("float", << Step(pack_f(arg)) >>)

\* send_string: encrypt_and_send(string.encode('utf8'))
send_string == Call("string", << Transmit(encode(arg)) >>)

\* send_enum: send_string(enumerable.value)
codec_send_enum == Call("enum", << Transmit(encode(SignalValue(arg))) >>)

\* send_image: the image is opened and encoded, then encrypt_and_send; on
\* FileNotFoundError or UnidentifiedImageError a message is printed and the
\* call returns.
codec_send_image ==
  Call("image", IF OpenImage(arg).err = "none"
                THEN << Transmit(OpenImage(arg).v) >> ELSE << >>)

\* A send_list that takes no list for empty.
IsEmptyList_Never(list_variable) == FALSE

\* "if not list_variable"
IsEmptyList(list_variable) == list_variable = << >>

\* A bytes() that keeps the low eight bits of each element.
Packed_Wrapping(list_variable) ==
  Ok([i \in 1 .. Len(list_variable) |-> list_variable[i] % 256])

\* "bytes(list_variable)" in send_list
Packed(list_variable) == bytes(list_variable)

\* send_list: send_enum(Signal.EMPTY) for an empty list, otherwise
\* send_enum(Signal.POPULATED) and encrypt_and_send(bytes(list_variable)).
send_list ==
  Call("list", IF IsEmptyList(arg)
               THEN << Transmit(encode(SignalValue("EMPTY"))) >>
               ELSE << Transmit(encode(SignalValue("POPULATED"))),
                       Step(Packed(arg)) >>)

\* encrypt_and_send(payload): the frame goes out; the call does not return
\* before the peer has accepted it.
codec_transmit ==
  /\ spos = "encrypt_and_send" /\ wire = << >>
  /\ wire' = << Head(plan).p >>
  /\ frames' = Append(frames, Head(plan).p)
  /\ spos' = "wait"
  /\ UNCHANGED << sop, arg, plan, rop, rpos, result, batchVars, frameVars,
                  sessVars, cipherVars, shopVars >>

\* encrypt_and_send returns on the peer's ACKNOWLEDGE and the send_* call
\* goes on.
codec_acknowledged ==
  /\ spos = "wait" /\ wire = << >>
  /\ plan' = Tail(plan)
  /\ spos' = Before(Tail(plan))
  /\ UNCHANGED << sop, arg, frames, wire, rop, rpos, result, batchVars,
                  frameVars, sessVars, cipherVars, shopVars >>

\* The receiving call has raised without accepting the frame and its
\* process gives the connection up: the sender's read of a code returns
\* nothing and send_data raises ConnectionError.
codec_peer_gone ==
  /\ spos = "wait" /\ wire # << >> /\ rpos = "ConnectionError"
  /\ spos' = "ConnectionError"
  /\ UNCHANGED << sop, arg, plan, frames, wire, rop, rpos, result, batchVars,
                  frameVars, sessVars, cipherVars, shopVars >>

\* "if not data: raise ConnectionError" of receive_data, reached with
\* length = 0 for the ciphertext of an empty payload.
NothingReceived(p) == p = << >>

\* receive_and_decrypt followed by the conversion of the receive_* call,
\* whose outcome on the payload at the head of the wire is "outcome": the
\* payload is acknowledged before the conversion is applied.
Deliver(op, pos, outcome) ==
  /\ rop = op /\ rpos = pos /\ wire # << >>
  /\ IF NothingReceived(Head(wire))
     THEN /\ rpos' = "ConnectionError"
          /\ UNCHANGED << wire, result >>
     ELSE /\ wire' = << >>
          /\ IF outcome.err = "none"
             THEN result' = outcome /\ rpos' = "returned"
             ELSE rpos' = outcome.err /\ UNCHANGED result
  /\ UNCHANGED << sop, arg, plan, spos, frames, rop, batchVars, frameVars,
                  sessVars, cipherVars, shopVars >>

\* receive_int: int.from_bytes(self.receive_and_decrypt(), byteorder='big')
receive_int == Deliver("int", "call", Ok(from_bytes(Head(wire))))

\* receive_float: struct.unpack('>f', self.receive_and_decrypt())[0]
receive_float == Deliver("float", "call", unpack_f(Head(wire)))

\* receive_string: self.receive_and_decrypt().decode('utf8')
receive_string == Deliver("string", "call", decode(Head(wire)))

\* enum_type(self.receive_string())
EnumOfPayload(p) ==
  IF decode(p).err # "none" THEN decode(p) ELSE Enum(decode(p).v)

\* receive_enum: enum_type(self.receive_string())
codec_receive_enum == Deliver("enum", "call", EnumOfPayload(Head(wire)))

\* receive_image: Image.open(BytesIO(self.receive_and_decrypt()))
codec_receive_image ==
  Deliver("image", "call",
          IF Head(wire) = ImageBytes THEN Ok("image")
          ELSE Raise("UnidentifiedImageError"))

\* receive_list: "if self.receive_enum(Signal) == Signal.EMPTY: return list()"
receive_list ==
  /\ rop = "list" /\ rpos = "call" /\ wire # << >>
  /\ IF NothingReceived(Head(wire))
     THEN /\ rpos' = "ConnectionError"
          /\ UNCHANGED << wire, result >>
     ELSE /\ wire' = << >>
          /\ LET o == EnumOfPayload(Head(wire)) IN
               IF o.err # "none"
               THEN rpos' = o.err /\ UNCHANGED result
               ELSE IF o.v = "EMPTY"
               THEN result' = Ok(<< >>) /\ rpos' = "returned"
               ELSE rpos' = "receive_and_decrypt" /\ UNCHANGED result
  /\ UNCHANGED << sop, arg, plan, spos, frames, rop, batchVars, frameVars,
                  sessVars, cipherVars, shopVars >>

\* receive_list: return list(self.receive_and_decrypt())
receive_list_bytes ==
  Deliver("list", "receive_and_decrypt", Ok(Head(wire)))

-----------------------------------------------------------------------------
(* Specification of the typed value codec *)

InitCodec ==
  /\ StreamerIdle /\ TransportIdle /\ SessionIdle /\ CipherIdle /\ ShopIdle
  /\ plan = << >> /\ frames = << >> /\ wire = << >> /\ result = << >>
  /\ spos = "call" /\ rpos = "call"
  /\ \/ sop = "int" /\ arg \in Ints /\ rop = "int"
     \/ sop = "float" /\ arg \in Floats /\ rop = "float"
     \/ sop = "string" /\ arg \in Strings /\ rop = "string"
     \/ sop = "enum" /\ arg \in Signal /\ rop = "enum"
     \/ sop = "image" /\ arg \in Files /\ rop = "image"
     \/ sop = "list" /\ arg \in Lists /\ rop = "list"
     \/ sop = "string" /\ arg \in EnumStrings /\ rop = "enum"
     \* a peer that sends a signal where a list is read
     \/ sop = "enum" /\ arg \in Signal /\ rop = "list"

NextCodec ==
  \/ send_int
  \/ send_float
  \/ send_string
  \/ codec_send_enum
  \/ codec_send_image
  \/ send_list
  \/ codec_transmit
  \/ codec_acknowledged
  \/ codec_peer_gone
  \/ receive_int
  \/ receive_float
  \/ receive_string
  \/ codec_receive_enum
  \/ codec_receive_image
  \/ receive_list
  \/ receive_list_bytes

SpecCodec == InitCodec /\ [][NextCodec]_vars

-----------------------------------------------------------------------------
(* Properties of the typed value codec *)

\* Neither call has raised.
SenderRunning == spos \in { "call", "encrypt_and_send", "wait", "returned" }
ReceiverRunning == rpos \in { "call", "receive_and_decrypt", "returned" }
BothCompleted == spos = "returned" /\ rpos = "returned"

\* C13: for every string s, the empty string included, send_string(s)
\* paired with receive_string() completes on both sides, neither raising,
\* and receive_string returns s.
C13_StringRoundTrip ==
  (sop = "string" /\ rop = "string")
    => /\ SenderRunning /\ ReceiverRunning
       /\ rpos = "returned" => result = Ok(arg)
       /\ (spos = "wait" /\ wire = << >>) => rpos = "returned"

\* v as 4 bytes, big-endian, two's complement.
TwosComplement(v) ==
  << (v \div 16777216) % 256, (v \div 65536) % 256, (v \div 256) % 256,
     v % 256 >>

\* C14: for every v with -2^31 <= v <= 2^31 - 1, send_int(v) paired with
\* receive_int() transmits v as 4 bytes big-endian two's complement and
\* receive_int returns v.
C14_IntRoundTrip ==
  (sop = "int" /\ rop = "int")
    => /\ SenderRunning /\ ReceiverRunning
       /\ frames # << >> => frames = << TwosComplement(arg) >>
       /\ rpos = "returned" => result = Ok(arg)
       /\ spos = "returned" => frames # << >>

\* Every element of the list fits one byte.
InRange(list_variable) ==
  \A i \in 1 .. Len(list_variable) : list_variable[i] \in Byte

\* C15: for every list L of integers in 0..255, the empty list included,
\* send_list(L) paired with receive_list() completes and returns L; the
\* empty list costs exactly one frame (EMPTY), a non-empty list exactly two
\* (POPULATED, then the packed bytes).
C15_ListRoundTrip ==
  (sop = "list" /\ rop = "list" /\ InRange(arg))
    => /\ SenderRunning /\ ReceiverRunning
       /\ ~BothCompleted => ENABLED NextCodec
       /\ rpos = "returned" => result = Ok(arg)
       /\ spos = "returned"
            => frames = IF arg = << >>
                        THEN << encode(SignalValue("EMPTY")) >>
                        ELSE << encode(SignalValue("POPULATED")), arg >>

C15_Witness ==
  /\ sop = "list" /\ rop = "list" /\ BothCompleted
  /\ Len(arg) = 2 /\ InRange(arg) /\ arg[1] = 255
  /\ Len(frames) = 2 /\ result = Ok(arg)

\* C16: send_list called with a list that has an element outside 0..255
\* fails with an error (ValueError, raised by bytes()); no packed bytes are
\* transmitted, and the receiver never obtains a list, in particular none
\* in which the element was wrapped or truncated to a byte.
C16_OutOfRangeRejected ==
  (sop = "list" /\ rop = "list" /\ ~InRange(arg))
    => /\ spos # "returned"
       /\ ~SenderRunning => spos = "ValueError"
       /\ SenderRunning => ENABLED NextCodec
       /\ \A i \in 1 .. Len(frames) :
            frames[i] = encode(SignalValue("POPULATED"))
       /\ rpos # "returned"

C16_Witness ==
  /\ sop = "list" /\ rop = "list" /\ arg = << 1, 256 >>
  /\ spos = "ValueError" /\ rpos = "receive_and_decrypt"
  /\ Len(frames) = 1 /\ wire = << >>

\* The string the sender passed to send_string, directly or in send_enum.
StringSent == IF sop = "enum" THEN SignalValue(arg) ELSE arg

\* C17: receive_enum(Signal) returns the member whose value equals the
\* received string when there is one, and otherwise raises an error
\* (ValueError) to its caller; it never returns a default or substitute
\* member.
C17_EnumLookup ==
  (rop = "enum")
    => /\ rpos = "returned"
            => /\ result.err = "none" /\ result.v \in Signal
               /\ SignalValue(result.v) = StringSent
       /\ (frames # << >> /\ wire = << >>)
            => rpos = IF \E e \in Signal : SignalValue(e) = StringSent
                      THEN "returned" ELSE "ValueError"

C17_Witness ==
  /\ rop = "enum" /\ sop = "string"
  /\ arg = << 101, 109, 112, 116, 121 >>
  /\ rpos = "ValueError" /\ spos = "returned"

-----------------------------------------------------------------------------
(* Further properties of the session layer *)

\* The server is about to read, as a command, a string that is not the
\* value of a member of Command.
UnknownCommandRead ==
  /\ main = "receive_command" /\ server_sock = "open" /\ c2s # << >>
  /\ ~EmptyPayload(Head(c2s))
  /\ Head(c2s).name \notin Command
  /\ reads' = reads + 1

\* C18: when the server reads a command string that is no member of
\* Command, no handler is executed and the session is terminated: its
\* connection is closed, and no further command is read on a closed
\* connection.
C18_UnknownCommandEndsSession ==
  /\ [][UnknownCommandRead
          => /\ executed' = executed
             /\ command' = "none"
             /\ server_sock' = "closed"
             /\ main' \notin { "receive_command", "handler", "return",
                               "stream" }]_vars
  /\ [][server_sock = "closed"
          => (reads' = reads /\ executed' = executed) \/ sessions' # sessions]_vars

C18_Witness ==
  /\ ccmd = "UNKNOWN" /\ reads = 2 /\ Len(executed) = 1
  /\ propagated = "ValueError" /\ server_sock = "closed"
  /\ main = "terminated"

-----------------------------------------------------------------------------
(* Further properties of the value codec *)

\* C19: a send operation that returns normally has transmitted its value;
\* send_image of a file that is missing or is no image raises an error to
\* its caller instead of returning.
C19_SendTransmitsOrRaises ==
  /\ (sop # "none" /\ spos = "returned") => frames # << >>
  /\ (sop = "image" /\ OpenImage(arg).err # "none")
       => spos \in { "call", OpenImage(arg).err }

-----------------------------------------------------------------------------
(* The key file over the sessions of one server process *)

-----------------------------------------------------------------------------
(* The Cipher: the key file shared by the processes, encrypt and decrypt *)

MaxBoxes == 2
MaxOpened == 2

KEY_SIZE == 16

\* os.urandom(KEY_SIZE): KEY_SIZE bytes; the model draws among a few.
KeyBytes == { 0, 7, 255 }
urandom(n) == { [i \in 1 .. n |-> b] : b \in KeyBytes }

\* Contents the file secret.key may have before the first process starts:
\* none, a key, a longer file, a shorter one.
KeyFiles ==
  { [exists |-> FALSE, bytes |-> << >>],
    [exists |-> TRUE, bytes |-> [i \in 1 .. KEY_SIZE |-> 1]],
    [exists |-> TRUE, bytes |-> [i \in 1 .. KEY_SIZE + 1 |-> i]],
    [exists |-> TRUE, bytes |-> << 1, 2, 3 >>] }

\* A read that stops one byte short of the key.
read_Short(contents, n) ==
  SubSeq(contents, 1, IF Len(contents) < n - 1 THEN Len(contents) ELSE n - 1)

\* f.read(n): the first n bytes of the file, fewer when it is shorter.
read(contents, n) ==
  SubSeq(contents, 1, IF Len(contents) < n THEN Len(contents) ELSE n)

\* Plaintexts passed to encrypt.
Plain == { << 1 >>, << 2 >> }

\* AES.new(key, AES.MODE_EAX [, nonce]): the key must have an AES key
\* length, which for at most KEY_SIZE bytes means exactly KEY_SIZE.
ValidKey(key) == Len(key) = KEY_SIZE

\* A library that starts every cipher object with the same nonce.
DrawNonce_Fixed(n) == 1

\* AES.new(self.key, AES.MODE_EAX) without a nonce: the library draws 16
\* random bytes for each new cipher object.  Random 128-bit values are
\* taken to be fresh: the n-th draw is the value n.
DrawNonce(n) == n + 1

\* Cipher.encrypt(message) under self.key = key with the library's nonce:
\* (ciphertext, tag, nonce).  Ciphertext and tag are ideal: they name the
\* key, the message and the nonce they were made from.
Cipher_encrypt(key, plaintext, nonce) ==
  IF ValidKey(key)
  THEN Ok([ciphertext |-> [key |-> key, message |-> plaintext,
                           nonce |-> nonce],
           tag |-> [key |-> key, message |-> plaintext, nonce |-> nonce],
           nonce |-> nonce])
  ELSE Raise("ValueError")

\* Cipher.decrypt(ciphertext, tag, nonce) under self.key = key:
\* decrypt_and_verify raises ValueError when the tag does not verify.
Cipher_decrypt(key, ciphertext, tag, nonce) ==
  IF /\ ValidKey(key)
     /\ tag = [key |-> key, message |-> ciphertext.message, nonce |-> nonce]
     /\ ciphertext.key = key /\ ciphertext.nonce = nonce
  THEN Ok(ciphertext.message)
  ELSE Raise("ValueError")

otherLayers == << batchVars, frameVars, sessVars, codecVars, shopVars >>

\* Cipher.__init__ up to retrieve_secret_key's os.path.isfile test.
Cipher_init(p) ==
  /\ cipher_pos[p] = "none"
  /\ cipher_pos' = [cipher_pos EXCEPT
                      ![p] = IF secret_key.exists THEN "read" ELSE "create"]
  /\ afterwards' = [afterwards EXCEPT
                      ![p] = \E q \in Procs \ {p} : cipher_pos[q] = "done"]
  /\ UNCHANGED << secret_key, cipher_key, created, drawn, boxes, opened,
                  otherLayers >>

\* retrieve_secret_key, file present: self.key = f.read(self.KEY_SIZE)
retrieve_secret_key_read(p) ==
  /\ cipher_pos[p] = "read"
  /\ cipher_key' = [cipher_key EXCEPT ![p] = read(secret_key.bytes, KEY_SIZE)]
  /\ cipher_pos' = [cipher_pos EXCEPT ![p] = "done"]
  /\ UNCHANGED << secret_key, created, afterwards, drawn, boxes, opened,
                  otherLayers >>

\* retrieve_secret_key, file absent: self.key = self.create_secret_key(),
\* which draws the key and writes it to secret.key.
create_secret_key_write(p) ==
  /\ cipher_pos[p] = "create"
  /\ \E key \in urandom(KEY_SIZE) :
       /\ secret_key' = [exists |-> TRUE, bytes |-> key]
       /\ cipher_key' = [cipher_key EXCEPT ![p] = key]
  /\ created' = [created EXCEPT ![p] = TRUE]
  /\ cipher_pos' = [cipher_pos EXCEPT ![p] = "done"]
  /\ UNCHANGED << afterwards, drawn, boxes, opened, otherLayers >>

\* One call of encrypt by process p.
Cipher_encrypt_call(p) ==
  /\ cipher_pos[p] = "done" /\ Len(boxes) < MaxBoxes
  /\ \E plaintext \in Plain :
       boxes' = Append(boxes,
                  [by |-> p, key |-> cipher_key[p], message |-> plaintext,
                   out |-> Cipher_encrypt(cipher_key[p], plaintext,
                                          DrawNonce(drawn))])
  /\ drawn' = IF ValidKey(cipher_key[p]) THEN drawn + 1 ELSE drawn
  /\ UNCHANGED << secret_key, cipher_pos, cipher_key, created, afterwards,
                  opened, otherLayers >>

\* One call of decrypt by process p, on what an encrypt call returned.
Cipher_decrypt_call(p) ==
  /\ cipher_pos[p] = "done" /\ Len(opened) < MaxOpened
  /\ \E i \in 1 .. Len(boxes) :
       /\ boxes[i].out.err = "none"
       /\ opened' = Append(opened,
                      [by |-> p, box |-> i,
                       out |-> Cipher_decrypt(cipher_key[p],
                                              boxes[i].out.v.ciphertext,
                                              boxes[i].out.v.tag,
                                              boxes[i].out.v.nonce)])
  /\ UNCHANGED << secret_key, cipher_pos, cipher_key, created, afterwards,
                  drawn, boxes, otherLayers >>

InitCipher ==
  /\ StreamerIdle /\ TransportIdle /\ SessionIdle /\ CodecIdle /\ ShopIdle
  /\ secret_key \in KeyFiles
  /\ cipher_pos = [p \in Procs |-> "none"]
  /\ cipher_key = [p \in Procs |-> << >>]
  /\ created = [p \in Procs |-> FALSE]
  /\ afterwards = [p \in Procs |-> FALSE]
  /\ drawn = 0 /\ boxes = << >> /\ opened = << >>

NextCipher ==
  \E p \in Procs :
    \/ Cipher_init(p)
    \/ retrieve_secret_key_read(p)
    \/ create_secret_key_write(p)
    \/ Cipher_encrypt_call(p)
    \/ Cipher_decrypt_call(p)

SpecCipher == InitCipher /\ [][NextCipher]_vars

\* C21: when the key file is absent and a first process constructs its
\* Cipher, a key of exactly KEY_SIZE bytes is generated and persisted; a
\* process that constructs its Cipher after that call returned reads the
\* same bytes, so whatever the first encrypts decrypts in the second.
C21_SharedKey ==
  \A p \in Procs : \A q \in Procs \ {p} :
    (created[p] /\ afterwards[q])
      => /\ Len(cipher_key[p]) = KEY_SIZE
         /\ secret_key = [exists |-> TRUE, bytes |-> cipher_key[p]]
         /\ ~created[q]
         /\ cipher_pos[q] = "done" => cipher_key[q] = cipher_key[p]
         /\ \A i \in 1 .. Len(boxes) :
              boxes[i].by = p => boxes[i].out.err = "none"
         /\ \A k \in 1 .. Len(opened) :
              (opened[k].by = q /\ boxes[opened[k].box].by = p)
                => opened[k].out = Ok(boxes[opened[k].box].message)

C21_Witness ==
  /\ created["server"] /\ afterwards["client"]
  /\ Len(opened) = 2 /\ opened[2].by = "client"
  /\ boxes[opened[2].box].by = "server"
  /\ opened[2].out = Ok(<< 2 >>)
  /\ cipher_key["client"] = [i \in 1 .. KEY_SIZE |-> 7]

\* Two encrypt calls that returned, made under the same key.
SameKeyCalls(i, j) ==
  /\ i # j
  /\ boxes[i].out.err = "none" /\ boxes[j].out.err = "none"
  /\ boxes[i].key = boxes[j].key

\* C22: two calls of encrypt under the same key return different nonces,
\* hence different (ciphertext, nonce) pairs, whether the plaintexts are
\* the same or not: no nonce serves twice under one key.
C22_NonceUniqueness ==
  \A i \in 1 .. Len(boxes) : \A j \in 1 .. Len(boxes) :
    SameKeyCalls(i, j)
      => /\ boxes[i].out.v.nonce # boxes[j].out.v.nonce
         /\ << boxes[i].out.v.ciphertext, boxes[i].out.v.nonce >>
              # << boxes[j].out.v.ciphertext, boxes[j].out.v.nonce >>

C22_Witness ==
  /\ Len(boxes) = 2 /\ SameKeyCalls(1, 2)
  /\ boxes[1].message = boxes[2].message
  /\ boxes[1].by # boxes[2].by

-----------------------------------------------------------------------------
(* Login state of a session *)

\* The client is back at its prompt after a create_user exchange and the
\* server holds a user name for the session.
CreatedAndLoggedIn ==
  /\ cpc = "prompt" /\ ccmd = "CREATE_USER"
  /\ client_sock = "open" /\ server_sock = "open"
  /\ main \in { "return", "receive_command" }
  /\ username

\* C23: after a successful create_user exchange the session is logged in
\* as the new user: the client's check_if_logged_in lets add_image,
\* search_by_image and browse_by_tag through without a login.
C23_CreateUserLogsIn == CreatedAndLoggedIn => user

\* The commands whose handlers work on the repository.
Gated == { "ADD_IMAGE", "SEARCH_BY_IMAGE", "BROWSE_BY_TAG" }

\* The server reads one of these commands while no user is logged in.
GatedCommandRead ==
  /\ main = "receive_command" /\ server_sock = "open" /\ c2s # << >>
  /\ ~username
  /\ Head(c2s) \in { send_enum(c) : c \in Gated }
  /\ reads' = reads + 1

\* C24: in every session the server stores an image, searches or browses
\* only after a create_user or login of that session has succeeded: the
\* handlers of these commands run only with a user name set, a user name
\* is set only by a create_user or login that answers SUCCESS, and a
\* command read with no user name set reads nothing more, starts no
\* retrieval and sends nothing.
C24_LoginGate ==
  /\ []((main \in { "handler", "stream" } /\ command \in Gated) => username)
  /\ [][(~username /\ username')
          => /\ main = "handler" /\ command \in { "CREATE_USER", "LOGIN" }
             /\ s2c' = Append(s2c, send_enum("SUCCESS"))]_vars
  /\ [][sessions' # sessions => ~username']_vars
  /\ [][GatedCommandRead
          => /\ s2c' = s2c /\ c2s' = Tail(c2s)
             /\ main' = "receive_command" /\ command' = "none"
             /\ UNCHANGED << srvBatch, expect, username >>]_vars

C24_Witness ==
  /\ ~username /\ main = "receive_command" /\ server_sock = "open"
  /\ reads = 2 /\ executed = << "CREATE_USER", "ADD_IMAGE" >>
  /\ s2c = << >> /\ sent = << send_enum("FAILURE") >>

\* The server answers a login that the database turned down.
LoginTurnedDown ==
  /\ Len(logins') = Len(logins) + 1
  /\ logins'[Len(logins')] \in { "unknown_user", "wrong_password" }

\* C25: a failed login does not reveal whether the user name exists: be
\* the user unknown or the password wrong, the server's step is the same,
\* it sends the single signal FAILURE and changes nothing else the client
\* can observe.
C25_FailedLoginUniform ==
  [][LoginTurnedDown
       => /\ s2c' = Append(s2c, send_enum("FAILURE"))
          /\ sent' = Append(sent, send_enum("FAILURE"))
          /\ main' = "return"
          /\ UNCHANGED << username, server_sock, c2s, command >>]_vars

C25_Witness ==
  /\ logins = << "unknown_user", "wrong_password" >>
  /\ sent = << send_enum("FAILURE"), send_enum("FAILURE") >>
  /\ cpc = "prompt" /\ ccmd = "LOGIN" /\ s2c = << >>
  /\ ~user /\ ~username

-----------------------------------------------------------------------------
(* Further properties of the batch streamer *)

\* The sink reads END_TRANSFER where it reads whether the transfer goes on.
EndTransferReceived ==
  /\ cli = "continuation" /\ cli' # cli
  /\ s2c # << >> /\ Head(s2c) = send_enum("END_TRANSFER")

\* C26: when the sink receives END_TRANSFER as the transfer-continuation
\* signal it leaves receive_batches_of_images without sending anything:
\* the step that reads the signal ends the loop and sends nothing, and
\* nothing is sent afterwards.
C26_EndTransferSilent ==
  /\ [][EndTransferReceived
          => /\ cli' = "done" /\ signal' = "END_TRANSFER"
             /\ c2s' = c2s /\ answers' = answers]_vars
  /\ [][(cli = "done" /\ signal = "END_TRANSFER")
          => /\ cli' = "done" /\ answers' = answers
             /\ Len(c2s') <= Len(c2s)]_vars

C26_Witness ==
  /\ cli = "done" /\ signal = "END_TRANSFER"
  /\ answers = << "y" >> /\ Len(batches) = 2
  /\ c2s = << >> /\ s2c = << >>
  /\ srv = "done"

\* The framing of one page of n records sent as a single batch.
SinglePage(n) ==
  << send_enum("SEARCH_RESULTS"), send_enum("START_TRANSFER"),
     send_enum("START_BATCH") >>
    \o Flatten([r \in 1 .. n |-> << send_enum("CONTINUE_BATCH") >> \o Record(r)])
    \o << send_enum("END_BATCH"), send_enum("END_TRANSFER") >>

\* C27: when 1 <= N < B the source emits exactly SEARCH_RESULTS,
\* START_TRANSFER, START_BATCH, then N times CONTINUE_BATCH and one record,
\* END_BATCH, END_TRANSFER.
C27_SmallPageFraming ==
  (1 <= image_count /\ image_count < batch_size /\ srv = "done")
    => sent = SinglePage(image_count)

\* The j-th page the source retrieves.
Page(j) == retrieve_func(IF small THEN 0 ELSE (j - 1) * batch_size)

\* The values sent after the i-th value, a CONTINUE_BATCH: the five fields
\* of one record in the order id, image, filename, cost, quantity, and
\* then a signal.
RecordFollows(i) ==
  /\ i + 1 <= Len(sent) => sent[i + 1].name = "id" /\ sent[i + 1].id >= 1
  /\ \A k \in 1 .. 5 :
       i + k <= Len(sent)
         => /\ sent[i + k] = RecordField(sent[i + 1].id, k)
            /\ sent[i + k].kind = FieldKind(k)
  /\ i + 6 <= Len(sent) => sent[i + 6].id = 0

\* C28: within a batch every record is sent as CONTINUE_BATCH followed by
\* exactly five values in the order id (int), image, filename (string),
\* cost (float), quantity (int); the sink reads them in that order, and
\* every batch it hands on equals, in order and field by field, the page
\* the source sent.
C28_RecordsIntact ==
  /\ \A i \in 1 .. Len(sent) :
       sent[i] = send_enum("CONTINUE_BATCH") => RecordFollows(i)
  /\ \A i \in 1 .. Len(sent) :
       sent[i].id # 0
         => \E k \in 1 .. 5 :
              i - k >= 1 /\ sent[i - k] = send_enum("CONTINUE_BATCH")
  /\ \A k \in 1 .. Len(rec) : rec[k].kind = FieldKind(k) /\ rec[k].id >= 1
  /\ \A j \in 1 .. Len(batches) :
       batches[j] = [i \in 1 .. Len(Page(j)) |-> Record(Page(j)[i])]

C28_Witness ==
  /\ image_count = 7 /\ batch_size = 5 /\ BothReturned
  /\ Len(batches) = 2
  /\ batches[2] = << Record(6), Record(7) >>
  /\ batches[1][5][4] = Item("float", "cost", 5)

-----------------------------------------------------------------------------
(* Further properties of the framed transport *)

\* receive_data returns a field to receive_and_decrypt.
FieldReturned == rpc = "receive_data" /\ Len(rframe') = Len(rframe) + 1

\* receive_data has read a part of the field and not yet all of it.
ShortRead == rpc = "receive_data" /\ 0 < data /\ data < length

\* C29: when the stream delivers a field in partial chunks, receive_data
\* keeps reading until it holds the declared number of bytes and returns
\* exactly that many: a short read is not an error, the loop goes on with
\* what arrives, and no byte of the following field or frame is taken,
\* since no more than the bytes still missing are ever in flight.
C29_ReadsExactlyLength ==
  /\ [](rpc = "receive_data" => data <= length)
  /\ []((rpc = "receive_data" /\ fwd # << >>)
          => Len(fwd) = 1 /\ Head(fwd).n <= length - data)
  /\ []((ShortRead /\ ~rclosed)
          => /\ fwd # << >> => ENABLED receive_data
             /\ ~ENABLED receive_data_return)
  /\ [][ShortRead => rpc' = "receive_data" /\ data' >= data]_vars
  /\ [][FieldReturned
          => /\ data = length
             /\ rframe'[Len(rframe')].kind = FieldOrder[rfield]
             /\ Size(rframe'[Len(rframe')]) = length]_vars

C29_Witness ==
  /\ rpc = "receive_data" /\ rfield = 3 /\ Len(rframe) = 2
  /\ length = TAG_SIZE /\ data = 1
  /\ fwd # << >> /\ Head(fwd).n = TAG_SIZE - 1
  /\ rframe[2].x = 0 /\ rframe[2].m = 2

-----------------------------------------------------------------------------
(* receive_list and its discriminator *)

\* The discriminator receive_list was sent is the symbol e.
Discriminator(e) == frames # << >> /\ frames[1] = encode(SignalValue(e))

\* C30: receive_list reads a second frame, the payload, if and only if the
\* discriminator symbol it received is POPULATED.
C30_PayloadIffPopulated ==
  rop = "list"
    => /\ rpos = "receive_and_decrypt" => Discriminator("POPULATED")
       /\ (rpos = "returned" /\ Discriminator("POPULATED")) => Len(frames) = 2
       /\ (rpos = "returned" /\ ~Discriminator("POPULATED")) => Len(frames) = 1

-----------------------------------------------------------------------------
(* The client's prompts: prompt_for_comma_separated_integers *)

MaxLine == 3        \* longest line (characters) the user enters
MaxPrompts == 2     \* lines one prompt call may read

\* The characters a line is made of, and the lines the user may enter.
Chars == { "1", "2", "9", ",", " ", "x" }
Lines == SeqsUpTo(Chars, MaxLine)

\* The valid_values the callers pass: the image ids of a batch
\* (add_to_cart_prompt) or the tag numbers (do_browse_by_tag).
ValidSets == { { 1 }, { 1, 2 }, { 2, 12 } }

Digits == { "1", "2", "9" }

DigitValue(c) == CASE c = "1" -> 1 [] c = "2" -> 2 [] c = "9" -> 9

\* str.isdigit(): not empty and every character a digit.
isdigit(s) == s # << >> /\ \A i \in 1 .. Len(s) : s[i] \in Digits

\* The number a string of digits denotes.
RECURSIVE DigitsValue(_)
DigitsValue(s) ==
  IF s = << >> THEN 0
  ELSE 10 * DigitsValue(SubSeq(s, 1, Len(s) - 1)) + DigitValue(s[Len(s)])

\* str.strip(): leading and trailing blanks removed.
RECURSIVE strip(_)
strip(s) ==
  IF s = << >> THEN s
  ELSE IF Head(s) = " " THEN strip(Tail(s))
  ELSE IF s[Len(s)] = " " THEN strip(SubSeq(s, 1, Len(s) - 1))
  ELSE s

\* int(s.strip()): ValueError unless the stripped text is a number.
int_strip(s) ==
  IF isdigit(strip(s)) THEN Ok(DigitsValue(strip(s))) ELSE Raise("ValueError")

\* str.split(','): the pieces between the commas.
RECURSIVE split(_)
split(s) ==
  IF \A i \in 1 .. Len(s) : s[i] # "," THEN << s >>
  ELSE LET k == CHOOSE i \in 1 .. Len(s) :
                  s[i] = "," /\ \A j \in 1 .. i - 1 : s[j] # ","
       IN  << SubSeq(s, 1, k - 1) >> \o split(SubSeq(s, k + 1, Len(s)))

\* list(set(...)): the orders in which a set may be listed.
Orders(S) ==
  { q \in [1 .. Cardinality(S) -> S] : Range(q) = S }

\* One pass of the "while True" loop on the line entered (and, for an empty
\* line, the confirmation entered): the lists that may be returned, or
\* "again" when the loop continues.  In the comma branch the "continue" of
\* an invalid element continues the "for" loop over int_list, so int_list is
\* returned whatever it holds.
PromptPass(line, confirmation, valid) ==
  IF line = << >>
    THEN IF confirmation = "y" THEN { Ok(<< >>) } ELSE { Raise("again") }
  ELSE IF isdigit(line)
    THEN IF DigitsValue(line) \notin valid
           THEN { Raise("again") }
           ELSE { Ok(<< DigitsValue(line) >>) }
  ELSE IF \E i \in 1 .. Len(line) : line[i] = ","
    THEN LET selection_list == split(line)
             parsed == [i \in 1 .. Len(selection_list)
                          |-> int_strip(selection_list[i])]
         IN  IF \E i \in 1 .. Len(parsed) : parsed[i].err # "none"
               THEN { Raise("again") }
               ELSE { Ok(int_list) :
                        int_list \in Orders({ parsed[i].v :
                                                i \in 1 .. Len(parsed) }) }
  ELSE { Raise("again") }

\* One line is read and handled.
prompt_for_comma_separated_integers ==
  /\ prompt_pos = "input" /\ prompts < MaxPrompts
  /\ \E line \in Lines, confirmation \in { "y", "n" } :
       \E outcome \in PromptPass(line, confirmation, valid_values) :
         /\ selection_raw' = line
         /\ prompts' = prompts + 1
         /\ prompt_pos' = IF outcome.err = "none" THEN "returned" ELSE "input"
         /\ selection' = outcome.v
  /\ UNCHANGED << valid_values, cartVars, batchVars, frameVars, sessVars,
                  codecVars, cipherVars >>

InitPrompt ==
  /\ StreamerIdle /\ TransportIdle /\ SessionIdle /\ CodecIdle /\ CipherIdle
  /\ valid_values \in ValidSets /\ prompt_pos = "input"
  /\ selection_raw = << >> /\ selection = << >> /\ prompts = 0
  /\ cart = [i \in ProductIds |-> NotInCart] /\ calls = 0
  /\ last_call = NoCall

NextPrompt == prompt_for_comma_separated_integers

SpecPrompt == InitPrompt /\ [][NextPrompt]_vars

\* C31: prompt_for_comma_separated_integers returns only lists all of whose
\* elements are members of valid_values (or the empty list).
C31_OnlyValidValues ==
  prompt_pos = "returned"
    => \A i \in 1 .. Len(selection) : selection[i] \in valid_values

-----------------------------------------------------------------------------
(* The shopping cart: ShoppingCart of util/shopping.py *)

MaxCalls == 4       \* cart calls per run
MaxQuantity == 3    \* largest quantity asked for
MaxStock == 2       \* largest stock of a product

\* The Products a caller may pass: any id, any stock, and any quantity, the
\* negative ones included (quantity is a plain attribute).
Quantities == -1 .. MaxQuantity
Stocks == 0 .. MaxStock
Products ==
  [id : ProductIds, quantity : Quantities, stock : Stocks]

\* "if product.quantity > 0" of add_to_cart, negated below for the test.
Addable_Any(product) == TRUE

Addable(product) == product.quantity > 0

\* self.cart.pop(product_id, None)
ShoppingCart_remove(c, product_id) ==
  [c EXCEPT ![product_id] = NotInCart]

\* update_in_cart(product_id, quantity) on the cart c.
ShoppingCart_update(c, product_id, quantity) ==
  IF ~c[product_id].held THEN c
  ELSE IF quantity < 0 THEN c
  ELSE IF quantity = 0 THEN ShoppingCart_remove(c, product_id)
  ELSE IF quantity > c[product_id].stock THEN c
  ELSE [c EXCEPT ![product_id].quantity = quantity]

\* add_to_cart(product) on the cart c.
ShoppingCart_add(c, product) ==
  IF c[product.id].held
    THEN IF product.quantity = 0
           THEN ShoppingCart_remove(c, product.id)
           ELSE ShoppingCart_update(c, product.id, product.quantity)
  ELSE IF Addable(product)
    THEN [c EXCEPT ![product.id] = [held |-> TRUE,
                                    quantity |-> product.quantity,
                                    stock |-> product.stock]]
  ELSE c

shopFixed == << promptVars, batchVars, frameVars, sessVars, codecVars,
                cipherVars >>

add_to_cart ==
  /\ calls < MaxCalls
  /\ \E product \in Products :
       /\ cart' = ShoppingCart_add(cart, product)
       /\ last_call' = [op |-> "add_to_cart", id |-> product.id,
                        quantity |-> product.quantity,
                        stock |-> product.stock]
  /\ calls' = calls + 1
  /\ UNCHANGED shopFixed

remove_from_cart ==
  /\ calls < MaxCalls
  /\ \E product_id \in ProductIds :
       /\ cart' = ShoppingCart_remove(cart, product_id)
       /\ last_call' = [op |-> "remove_from_cart", id |-> product_id,
                        quantity |-> 0, stock |-> 0]
  /\ calls' = calls + 1
  /\ UNCHANGED shopFixed

update_in_cart ==
  /\ calls < MaxCalls
  /\ \E product_id \in ProductIds, quantity \in Quantities :
       /\ cart' = ShoppingCart_update(cart, product_id, quantity)
       /\ last_call' = [op |-> "update_in_cart", id |-> product_id,
                        quantity |-> quantity, stock |-> 0]
  /\ calls' = calls + 1
  /\ UNCHANGED shopFixed

\* ShoppingCart(): an empty cart.
InitCart ==
  /\ StreamerIdle /\ TransportIdle /\ SessionIdle /\ CodecIdle /\ CipherIdle
  /\ ShopIdle

NextCart == add_to_cart \/ remove_from_cart \/ update_in_cart

SpecCart == InitCart /\ [][NextCart]_vars

\* The product ids self.cart holds.
Held == { i \in ProductIds : cart[i].held }

\* A call that sets the quantity of a product the cart holds to 0.
SetToZero ==
  /\ last_call'.op \in { "add_to_cart", "update_in_cart" }
  /\ last_call'.quantity = 0
  /\ calls' = calls + 1
  /\ cart[last_call'.id].held

\* C32: every product held in the cart has quantity > 0: a product comes
\* into the cart only with a positive quantity, and setting the quantity of a
\* product in the cart to 0 removes it.
C32_PositiveQuantities ==
  /\ [](\A i \in Held : cart[i].quantity > 0)
  /\ [][\A i \in ProductIds :
          (~cart[i].held /\ cart'[i].held)
            => /\ last_call' = [op |-> "add_to_cart", id |-> i,
                                quantity |-> cart'[i].quantity,
                                stock |-> cart'[i].stock]
               /\ cart'[i].quantity > 0]_vars
  /\ [][SetToZero => ~cart'[last_call'.id].held]_vars

C32_Witness ==
  /\ last_call = [op |-> "update_in_cart", id |-> 1, quantity |-> 0,
                  stock |-> 0]
  /\ calls = 3 /\ Held = { 2 } /\ cart[2].quantity = 2

\* C39: every product held in the cart has quantity <= its stock.
C39_WithinStock ==
  \A i \in Held : cart[i].quantity <= cart[i].stock

-----------------------------------------------------------------------------
(* The client's and the server's view of the login *)

\* C33: whenever the client considers itself logged in (ClientPrompt.user is
\* set) the server session is logged in (ServerCommander.username is set), so
\* the server's not-logged-in early return is taken only for a command that
\* a client which is not logged in has sent.
C33_ClientLoginImpliesServerLogin ==
  /\ [](user => username)
  /\ [][GatedCommandRead => ~user]_vars

C33_Witness ==
  /\ user /\ username /\ executed = << "LOGIN", "ADD_IMAGE" >>
  /\ main = "receive_command" /\ cpc = "prompt" /\ s2c = << >>

-----------------------------------------------------------------------------
(* Two processes constructing their Cipher while secret.key is absent *)

\* The key file was absent when the first Cipher() tested for it: a process
\* has created it.
KeyFileWasAbsent == \E p \in Procs : created[p]

\* C34: when two processes construct their Cipher while the key file is
\* absent, both end up holding the same key bytes, whatever the interleaving.
C34_SameKeyAfterRace ==
  (KeyFileWasAbsent /\ \A p \in Procs : cipher_pos[p] = "done")
    => cipher_key["server"] = cipher_key["client"]

-----------------------------------------------------------------------------
(* send_list on a list that bytes() rejects *)

\* C35: send_list is all-or-nothing on failure: when it fails because an
\* element does not fit one byte, nothing has been transmitted, and the peer
\* is not left waiting for a payload frame after POPULATED.
C35_SendListAllOrNothing ==
  (sop = "list" /\ rop = "list" /\ spos = "ValueError")
    => /\ frames = << >>
       /\ rpos # "receive_and_decrypt"

-----------------------------------------------------------------------------
(* The framed transport over a channel that alters the final code *)

\* The code after alteration: the other member of Code.
OtherCode(c) == IF c = "ack" THEN "err" ELSE "ack"

\* The channel alters the unencrypted code that receive_and_decrypt wrote
\* after decryption, while it is in flight to the sender.
alter_code_in_transit ==
  /\ faults < MaxFaults
  /\ \E i \in 1 .. Len(back) :
       /\ back[i].of = "frame"
       /\ back' = [back EXCEPT ![i].code = OtherCode(@)]
  /\ faults' = faults + 1
  /\ UNCHANGED << batchFixed, senderSide, receiverSide, fwd, sclosed, rclosed,
                  attempt_bad >>

NextFrameCode == NextFrame \/ alter_code_in_transit

SpecFrameCode == InitFrame /\ [][NextFrameCode]_vars

\* C36: with the final acknowledgment code of a frame altered in transit, no
\* payload is delivered twice and none is lost: the payloads returned by
\* receive_and_decrypt are, in order, the payloads passed to
\* encrypt_and_send.
C36_CodeAlterationHarmless ==
  /\ Len(delivered) <= Len(submitted)
  /\ \A i \in 1 .. Len(delivered) :
       i <= Len(submitted) => delivered[i] = submitted[i]

-----------------------------------------------------------------------------
(* The framed transport over a channel that alters the length field *)

\* The values an altered length field may decode to.
LengthValues == 0 .. MaxLen + 1

\* The channel alters bytes of the 8-byte length field in flight: the
\* receiver's int.from_bytes(length, 'big') yields some other number.
alter_length_in_transit ==
  /\ fwd # << >>
  /\ Head(fwd).tok.kind = "length"
  /\ Head(fwd).tok.x = 0
  /\ Head(fwd).n = Size(Head(fwd).tok)
  /\ attempt_bad \/ faults < MaxFaults
  /\ \E l \in LengthValues \ { Head(fwd).tok.m } :
       fwd' = [fwd EXCEPT ![1].tok = [@ EXCEPT !.m = l, !.x = 1]]
  /\ attempt_bad' = TRUE
  /\ faults' = IF attempt_bad THEN faults ELSE faults + 1
  /\ UNCHANGED << batchFixed, senderSide, receiverSide, back, sclosed,
                  rclosed >>

NextFrameLength == NextFrame \/ alter_length_in_transit

SpecFrameLength == InitFrame /\ [][NextFrameLength]_vars

\* Each endpoint waits for the other: the sender for a code, the receiver
\* for bytes, with nothing in flight.
BothBlocked ==
  /\ BothAlive
  /\ SenderReading /\ back = << >>
  /\ ReceiverReading /\ fwd = << >>

\* receive_and_decrypt starts reading a frame.
AtFrameStart == rpc = "receive_data" /\ rfield = 1 /\ data = 0

\* C37: with the length field of a frame corrupted in transit, neither party
\* blocks forever, and the receiver reads every frame, the retransmission
\* included, from a frame boundary: no bytes of the bad attempt are left over
\* and parsed as part of a later field.
C37_LengthCorruptionRecovered ==
  /\ ~BothBlocked
  /\ (AtFrameStart /\ fwd # << >>)
       => /\ Head(fwd).tok.kind = "length"
          /\ Head(fwd).n = LENGTH_SIZE

-----------------------------------------------------------------------------
(* The EXIT command *)

\* The server reads the EXIT command.
ExitRead ==
  /\ main = "receive_command" /\ server_sock = "open" /\ c2s # << >>
  /\ Head(c2s) = send_enum("EXIT")
  /\ reads' = reads + 1

\* The server accepts a connection after a session that EXIT ended.
LaterConnection ==
  /\ main = "accept" /\ db_session = "closed" /\ sessions' = sessions + 1

\* C38: when the client sends EXIT the server closes its database session
\* and the socket, leaves the command loop and is back at accept, where a
\* later client connection is accepted and served by a new session.
C38_ExitReturnsToAccept ==
  /\ [][ExitRead
          => /\ db_session' = "closed" /\ server_sock' = "closed"
             /\ main' = "accept" /\ propagated' = "none"
             /\ executed' = Append(executed, "EXIT")
             /\ s2c' = s2c]_vars
  /\ []((main = "accept" /\ sessions < MaxSessions
           /\ cpc \in { "none", "exited" })
          => ENABLED accept)
  /\ [][LaterConnection
          => /\ main' = "receive_command" /\ server_sock' = "open"
             /\ db_session' = "open" /\ ~username' /\ executed' = << >>]_vars

C38_Witness ==
  /\ sessions = 2 /\ main = "receive_command" /\ db_session = "open"
  /\ executed = << "CREATE_USER" >> /\ username /\ server_sock = "open"

====
